---- MODULE Spec2Model ----
(***************************************************************************)
(* A model of story_mcp_server.py: the story file store (save_story and    *)
(* get_story), the filename sanitizer and the structural validator of the  *)
(* X-Atmosphere-Token header.                                              *)
(*                                                                         *)
(* Text is modelled as a sequence of characters; a character is a string   *)
(* naming one code point ("a", "\n", "U+0130").  Bytes are numbers 0..255. *)
(***************************************************************************)
EXTENDS Naturals, Integers, Sequences, FiniteSets, TLC

VARIABLES
    arg,        \* the input of the pure function being applied
    ret,        \* None before the function is applied, then Some(its result)
    files,      \* the working directory: path -> None or Some(stored text)
    calls,      \* the tool calls in progress, one record per slot
    today,      \* the clock: days since the first of the month
    served,     \* the number of tool calls invoked so far
    lastWrite,  \* history: path -> None or Some(the last call that wrote it)
    characters  \* the character table

pureVars == <<arg, ret>>
storeVars == <<files, calls, today, served, lastWrite>>
vars == <<arg, ret, files, calls, today, served, lastWrite, characters>>

\* optional values
None == <<>>
Some(x) == <<x>>

\* the file store takes no part in the application of a pure function
StoreAtRest ==
    /\ files = <<>>
    /\ calls = <<>>
    /\ today = 0
    /\ served = 0
    /\ lastWrite = <<>>

(***************************************************************************)
(* The character table (lines 150-163): a dict in insertion order, each    *)
(* value a dict with the keys "backstory" and "superpower".                *)
(***************************************************************************)
\* "Jack"
NameJack ==
    <<"J","a","c","k">>

\* "Ram"
NameRam ==
    <<"R","a","m">>

\* "Robert"
NameRobert ==
    <<"R","o","b","e","r","t">>

\* "Jack is a former spy who now lives as a covert hero."
BackstoryJack ==
    <<"J","a","c","k"," ","i","s"," ","a"," ","f","o","r","m","e","r"," ",
      "s","p","y"," ","w","h","o"," ","n","o","w"," ","l","i","v","e","s",
      " ","a","s"," ","a"," ","c","o","v","e","r","t"," ","h","e","r","o",
      ".">>

\* "Invisibility and telepathy"
SuperpowerJack ==
    <<"I","n","v","i","s","i","b","i","l","i","t","y"," ","a","n","d"," ",
      "t","e","l","e","p","a","t","h","y">>

\* "Ram is an ancient warrior reborn in the modern world to fight for peace."
BackstoryRam ==
    <<"R","a","m"," ","i","s"," ","a","n"," ","a","n","c","i","e","n","t",
      " ","w","a","r","r","i","o","r"," ","r","e","b","o","r","n"," ","i",
      "n"," ","t","h","e"," ","m","o","d","e","r","n"," ","w","o","r","l",
      "d"," ","t","o"," ","f","i","g","h","t"," ","f","o","r"," ","p","e",
      "a","c","e",".">>

\* "Invincible body and immense strength"
SuperpowerRam ==
    <<"I","n","v","i","n","c","i","b","l","e"," ","b","o","d","y"," ","a",
      "n","d"," ","i","m","m","e","n","s","e"," ","s","t","r","e","n","g",
      "t","h">>

\* "Robert is a scientist who became part machine after a lab accident."
BackstoryRobert ==
    <<"R","o","b","e","r","t"," ","i","s"," ","a"," ","s","c","i","e","n",
      "t","i","s","t"," ","w","h","o"," ","b","e","c","a","m","e"," ","p",
      "a","r","t"," ","m","a","c","h","i","n","e"," ","a","f","t","e","r",
      " ","a"," ","l","a","b"," ","a","c","c","i","d","e","n","t",".">>

\* "Power fused with advanced technology"
SuperpowerRobert ==
    <<"P","o","w","e","r"," ","f","u","s","e","d"," ","w","i","t","h"," ",
      "a","d","v","a","n","c","e","d"," ","t","e","c","h","n","o","l","o",
      "g","y">>

\* "Character not found."
CharacterNotFound ==
    <<"C","h","a","r","a","c","t","e","r"," ","n","o","t"," ","f","o","u",
      "n","d",".">>

CHARACTERS ==
    << [key |-> NameJack,
        value |-> [backstory |-> BackstoryJack, superpower |-> SuperpowerJack]],
       [key |-> NameRam,
        value |-> [backstory |-> BackstoryRam, superpower |-> SuperpowerRam]],
       [key |-> NameRobert,
        value |-> [backstory |-> BackstoryRobert, superpower |-> SuperpowerRobert]] >>

\* the table is loaded when the module is imported
TableLoaded == characters = CHARACTERS

(***************************************************************************)
(* Bounds of the model.                                                    *)
(***************************************************************************)
MaxPieces == 5      \* a title is at most this many pieces of TitlePieces
MaxSegments == 4    \* a token is at most this many segments of TokenSegments

(***************************************************************************)
(* str helpers (the Python str methods the code uses).                     *)
(***************************************************************************)
UpperLetters ==
    <<"A","B","C","D","E","F","G","H","I","J","K","L","M",
      "N","O","P","Q","R","S","T","U","V","W","X","Y","Z">>

LowerLetters ==
    <<"a","b","c","d","e","f","g","h","i","j","k","l","m",
      "n","o","p","q","r","s","t","u","v","w","x","y","z">>

Digits == <<"0","1","2","3","4","5","6","7","8","9">>

IndexOf(ch, table) == CHOOSE i \in 1..Len(table) : table[i] = ch

InTable(ch, table) == \E i \in 1..Len(table) : table[i] = ch

\* str.lower() of one character.  U+0130 (capital I with dot above) is the
\* one character whose lowercase is two code points.
char_lower(ch) ==
    IF InTable(ch, UpperLetters) THEN <<LowerLetters[IndexOf(ch, UpperLetters)]>>
    ELSE IF ch = "U+0130" THEN <<"i", "U+0307">>
    ELSE <<ch>>

\* "".join(parts), halving the sequence of parts
RECURSIVE Concat(_)
Concat(parts) ==
    IF parts = <<>> THEN <<>>
    ELSE IF Len(parts) = 1 THEN parts[1]
    ELSE Concat(SubSeq(parts, 1, Len(parts) \div 2))
             \o Concat(SubSeq(parts, (Len(parts) \div 2) + 1, Len(parts)))

\* s.lower(): the lowercase of each character, joined
str_lower(s) == Concat([i \in 1..Len(s) |-> char_lower(s[i])])

\* s.replace(old, new) for one-character old and new
str_replace(s, old, new) ==
    [i \in 1..Len(s) |-> IF s[i] = old THEN new ELSE s[i]]

\* s.count(ch)
str_count(s, ch) == Cardinality({i \in 1..Len(s) : s[i] = ch})

\* s.split(sep) for a one-character sep: count(sep) + 1 parts
RECURSIVE str_split(_, _)
str_split(s, sep) ==
    IF \A i \in 1..Len(s) : s[i] # sep THEN <<s>>
    ELSE LET k == CHOOSE i \in 1..Len(s) :
                      s[i] = sep /\ \A j \in 1..(i - 1) : s[j] # sep
         IN  <<SubSeq(s, 1, k - 1)>> \o str_split(SubSeq(s, k + 1, Len(s)), sep)

\* sep.join(parts)
RECURSIVE str_join(_, _)
str_join(sep, parts) ==
    IF parts = <<>> THEN <<>>
    ELSE IF Len(parts) = 1 THEN parts[1]
    ELSE parts[1] \o sep \o str_join(sep, Tail(parts))

\* s[:n]
Prefix(s, n) == SubSeq(s, 1, IF n < Len(s) THEN n ELSE Len(s))

\* s[-n:]
Suffix(s, n) == SubSeq(s, (IF n < Len(s) THEN Len(s) - n ELSE 0) + 1, Len(s))

\* needle in hay
Contains(hay, needle) ==
    \E i \in 0..(Len(hay) - Len(needle)) :
        SubSeq(hay, i + 1, i + Len(needle)) = needle

StartsWith(s, p) == Len(p) <= Len(s) /\ SubSeq(s, 1, Len(p)) = p

EndsWith(s, p) ==
    Len(p) <= Len(s) /\ SubSeq(s, Len(s) - Len(p) + 1, Len(s)) = p

(***************************************************************************)
(* sanitize_filename                                                       *)
(***************************************************************************)
MaxUnderscores == 3
KeptTokens == 4
MaxFilenameLen == 30

DotMd == <<".", "m", "d">>

\* a plausible slip: split('_')[:3], one token too few
sanitize_filename_ThreeTokens(title) ==
    LET f0 == str_lower(str_replace(title, " ", "_"))
        f1 == IF str_count(f0, "_") > MaxUnderscores
              THEN str_join(<<"_">>, Prefix(str_split(f0, "_"), KeptTokens - 1))
              ELSE f0
        f2 == IF Len(f1) > MaxFilenameLen THEN Prefix(f1, MaxFilenameLen) ELSE f1
    IN  f2 \o DotMd

sanitize_filename(title) ==
    LET f0 == str_lower(str_replace(title, " ", "_"))
        f1 == IF str_count(f0, "_") > MaxUnderscores
              THEN str_join(<<"_">>, Prefix(str_split(f0, "_"), KeptTokens))
              ELSE f0
        f2 == IF Len(f1) > MaxFilenameLen THEN Prefix(f1, MaxFilenameLen) ELSE f1
    IN  f2 \o DotMd

(***************************************************************************)
(* The titles the sanitizer is checked on: every concatenation of at most  *)
(* MaxPieces pieces, and the two titles the documentation names.           *)
(***************************************************************************)
LongWord == <<"A","b","c","d","e","f","g","h","i","j","k","l","m">>

TitlePieces == {<<" ">>, <<"_">>, <<"A">>, <<"b">>, <<"U+0130">>, LongWord}

PieceTitles ==
    UNION {{Concat(ps) : ps \in [1..n -> TitlePieces]} : n \in 0..MaxPieces}

TitleMyGreatStory ==
    <<"M","y"," ","G","r","e","a","t"," ","S","t","o","r","y">>

TitleOneToFive ==
    <<"O","n","e"," ","T","w","o"," ","T","h","r","e","e"," ",
      "F","o","u","r"," ","F","i","v","e">>

Titles == PieceTitles \cup {TitleMyGreatStory, TitleOneToFive}

InitSanitize == arg \in Titles /\ ret = None /\ StoreAtRest /\ TableLoaded

ApplySanitize ==
    /\ ret = None
    /\ ret' = Some(sanitize_filename(arg))
    /\ UNCHANGED <<arg, storeVars, characters>>

SpecSanitize == InitSanitize /\ [][ApplySanitize]_vars

(***************************************************************************)
(* base64.urlsafe_b64decode, as CPython does it: the str is encoded to     *)
(* ASCII (ValueError otherwise), '-' and '_' are translated to '+' and     *)
(* '/', and binascii.a2b_base64 decodes in its non-strict mode, which      *)
(* skips every character outside the alphabet.                             *)
(***************************************************************************)
NonAsciiChars == {"U+0130", "U+0307", "U+00E9"}

IsAscii(s) == \A i \in 1..Len(s) : s[i] \notin NonAsciiChars

B64Table == UpperLetters \o LowerLetters \o Digits \o <<"+", "/">>

urlsafe_translate(s) ==
    [i \in 1..Len(s) |-> IF s[i] = "-" THEN "+" ELSE IF s[i] = "_" THEN "/" ELSE s[i]]

\* The decoding loop of a2b_base64: quad is the position in the current group
\* of four, left the bits carried over, pads the '=' seen since the last
\* data character.
RECURSIVE a2b_base64_from(_, _, _, _, _, _)
a2b_base64_from(s, i, quad, left, pads, out) ==
    IF i > Len(s)
    THEN [ok |-> quad = 0, bytes |-> out]
    ELSE IF s[i] = "="
    THEN IF quad >= 2 /\ quad + pads + 1 >= 4
         THEN [ok |-> TRUE, bytes |-> out]
         ELSE a2b_base64_from(s, i + 1, quad, left,
                              IF quad >= 2 THEN pads + 1 ELSE pads, out)
    ELSE IF ~InTable(s[i], B64Table)
    THEN a2b_base64_from(s, i + 1, quad, left, pads, out)
    ELSE LET v == IndexOf(s[i], B64Table) - 1 IN
         CASE quad = 0 -> a2b_base64_from(s, i + 1, 1, v, 0, out)
           [] quad = 1 -> a2b_base64_from(s, i + 1, 2, v % 16, 0,
                                          Append(out, (left * 4) + (v \div 16)))
           [] quad = 2 -> a2b_base64_from(s, i + 1, 3, v % 4, 0,
                                          Append(out, (left * 16) + (v \div 4)))
           [] quad = 3 -> a2b_base64_from(s, i + 1, 0, 0, 0,
                                          Append(out, (left * 64) + v))

\* [status |-> "ok" | "ValueError" | "binascii.Error", bytes]
urlsafe_b64decode(s) ==
    IF ~IsAscii(s) THEN [status |-> "ValueError", bytes |-> <<>>]
    ELSE LET r == a2b_base64_from(urlsafe_translate(s), 1, 0, 0, 0, <<>>)
         IN  IF r.ok THEN [status |-> "ok", bytes |-> r.bytes]
             ELSE [status |-> "binascii.Error", bytes |-> <<>>]

\* '=' * (4 - len(seg) % 4) if len(seg) % 4 else ''
b64_padding(seg) ==
    IF Len(seg) % 4 # 0 THEN [i \in 1..(4 - (Len(seg) % 4)) |-> "="] ELSE <<>>

(***************************************************************************)
(* json.loads on bytes, as CPython's json package does it: detect the      *)
(* encoding, decode the bytes (errors='surrogatepass'), then scan one      *)
(* value between optional whitespace.  Bytes are numbers; the scanner is   *)
(* the one of Modules/_json.c.  What is kept of a parsed value is its kind *)
(* and, for an object, the kind of the value stored under "sub".           *)
(***************************************************************************)
At(b, i) == IF i >= 1 /\ i <= Len(b) THEN b[i] ELSE -1

IsCont(x) == x >= 128 /\ x <= 191

\* json.detect_encoding; "other" stands for the UTF-16 and UTF-32 answers
detect_encoding(b) ==
    IF \/ StartsWith(b, <<0, 0, 254, 255>>) \/ StartsWith(b, <<255, 254, 0, 0>>)
       \/ StartsWith(b, <<254, 255>>) \/ StartsWith(b, <<255, 254>>)
    THEN "other"
    ELSE IF StartsWith(b, <<239, 187, 191>>) THEN "utf-8-sig"
    ELSE IF Len(b) >= 4 /\ (b[1] = 0 \/ b[2] = 0) THEN "other"
    ELSE IF Len(b) = 2 /\ (b[1] = 0 \/ b[2] = 0) THEN "other"
    ELSE "utf-8"

\* bytes.decode('utf-8', 'surrogatepass') succeeds on b from position i on
RECURSIVE utf8_decodes(_, _)
utf8_decodes(b, i) ==
    IF i > Len(b) THEN TRUE
    ELSE LET x == b[i]
             y == At(b, i + 1)
         IN  IF x < 128 THEN utf8_decodes(b, i + 1)
             ELSE IF x >= 194 /\ x <= 223
             THEN IsCont(y) /\ utf8_decodes(b, i + 2)
             ELSE IF x >= 224 /\ x <= 239
             THEN /\ IsCont(y)
                  /\ (x = 224 => y >= 160)
                  /\ IsCont(At(b, i + 2))
                  /\ utf8_decodes(b, i + 3)
             ELSE IF x >= 240 /\ x <= 244
             THEN /\ IsCont(y)
                  /\ (x = 240 => y >= 144)
                  /\ (x = 244 => y <= 143)
                  /\ IsCont(At(b, i + 2))
                  /\ IsCont(At(b, i + 3))
                  /\ utf8_decodes(b, i + 4)
             ELSE FALSE

IsWs(x) == x \in {32, 9, 10, 13}

IsDigit(x) == x >= 48 /\ x <= 57

IsHex(x) == IsDigit(x) \/ (x >= 65 /\ x <= 70) \/ (x >= 97 /\ x <= 102)

HexVal(x) == IF IsDigit(x) THEN x - 48 ELSE IF x >= 97 THEN x - 87 ELSE x - 55

RECURSIVE SkipWs(_, _)
SkipWs(b, i) == IF i <= Len(b) /\ IsWs(b[i]) THEN SkipWs(b, i + 1) ELSE i

RECURSIVE SkipDigits(_, _)
SkipDigits(b, i) == IF i <= Len(b) /\ IsDigit(b[i]) THEN SkipDigits(b, i + 1) ELSE i

JsonFail == [ok |-> FALSE, next |-> 0, kind |-> "none", sub |-> "absent"]

JsonValue(n, k) == [ok |-> TRUE, next |-> n, kind |-> k, sub |-> "absent"]

\* scanstring (strict) from the character after the opening quote;
\* text is the decoded string
RECURSIVE scanstring(_, _, _)
scanstring(b, i, text) ==
    IF i > Len(b) THEN [ok |-> FALSE, next |-> 0, text |-> <<>>]
    ELSE IF b[i] = 34 THEN [ok |-> TRUE, next |-> i + 1, text |-> text]
    ELSE IF b[i] < 32 THEN [ok |-> FALSE, next |-> 0, text |-> <<>>]
    ELSE IF b[i] # 92 THEN scanstring(b, i + 1, Append(text, b[i]))
    ELSE LET e == At(b, i + 1) IN
         IF e = 117
         THEN IF \A k \in 2..5 : IsHex(At(b, i + k))
              THEN scanstring(b, i + 6,
                       Append(text, (HexVal(b[i + 2]) * 4096) + (HexVal(b[i + 3]) * 256)
                                    + (HexVal(b[i + 4]) * 16) + HexVal(b[i + 5])))
              ELSE [ok |-> FALSE, next |-> 0, text |-> <<>>]
         ELSE IF e \in {34, 92, 47, 98, 102, 110, 114, 116}
         THEN scanstring(b, i + 2,
                  Append(text, CASE e = 98 -> 8 [] e = 102 -> 12 [] e = 110 -> 10
                                 [] e = 114 -> 13 [] e = 116 -> 9 [] OTHER -> e))
         ELSE [ok |-> FALSE, next |-> 0, text |-> <<>>]

\* _match_number: -?(0|[1-9][0-9]*)(\.[0-9]+)?([eE][-+]?[0-9]+)?
match_number(b, i) ==
    LET i1 == IF At(b, i) = 45 THEN i + 1 ELSE i
        i2 == IF At(b, i1) >= 49 /\ At(b, i1) <= 57 THEN SkipDigits(b, i1 + 1)
              ELSE IF At(b, i1) = 48 THEN i1 + 1
              ELSE 0
        frac == At(b, i2) = 46 /\ IsDigit(At(b, i2 + 1))
        i3 == IF frac THEN SkipDigits(b, i2 + 2) ELSE i2
        e1 == IF At(b, i3 + 1) \in {43, 45} THEN i3 + 2 ELSE i3 + 1
        exp == At(b, i3) \in {69, 101} /\ IsDigit(At(b, e1))
        i4 == IF exp THEN SkipDigits(b, e1) ELSE i3
    IN  IF i2 = 0 THEN JsonFail
        ELSE JsonValue(i4, IF frac \/ exp THEN "float" ELSE "int")

KeySub == <<115, 117, 98>>

RECURSIVE scan_once(_, _)
RECURSIVE parse_object_members(_, _, _)
RECURSIVE parse_array_items(_, _)

\* the members of an object from position i (a key is expected there);
\* sub is the kind stored under "sub" so far
parse_object_members(b, i, sub) ==
    IF At(b, i) # 34 THEN JsonFail
    ELSE LET key == scanstring(b, i + 1, <<>>) IN
         IF ~key.ok THEN JsonFail
         ELSE LET c == SkipWs(b, key.next) IN
              IF At(b, c) # 58 THEN JsonFail
              ELSE LET val == scan_once(b, SkipWs(b, c + 1)) IN
                   IF ~val.ok THEN JsonFail
                   ELSE LET n == SkipWs(b, val.next)
                            s == IF key.text = KeySub THEN val.kind ELSE sub
                        IN  IF At(b, n) = 125
                            THEN [ok |-> TRUE, next |-> n + 1, kind |-> "object", sub |-> s]
                            ELSE IF At(b, n) # 44 THEN JsonFail
                            ELSE parse_object_members(b, SkipWs(b, n + 1), s)

\* the items of an array from position i (a value is expected there)
parse_array_items(b, i) ==
    LET val == scan_once(b, i) IN
    IF ~val.ok THEN JsonFail
    ELSE LET n == SkipWs(b, val.next) IN
         IF At(b, n) = 93 THEN JsonValue(n + 1, "array")
         ELSE IF At(b, n) # 44 THEN JsonFail
         ELSE parse_array_items(b, SkipWs(b, n + 1))

\* scan_once: one JSON value at position i
scan_once(b, i) ==
    LET x == At(b, i)
        word(w) == SubSeq(b, i, i + Len(w) - 1) = w
    IN  IF i > Len(b) THEN JsonFail
        ELSE IF x = 34
        THEN LET s == scanstring(b, i + 1, <<>>)
             IN  IF s.ok THEN JsonValue(s.next, "string") ELSE JsonFail
        ELSE IF x = 123
        THEN LET n == SkipWs(b, i + 1)
             IN  IF At(b, n) = 125
                 THEN JsonValue(n + 1, "object")
                 ELSE parse_object_members(b, n, "absent")
        ELSE IF x = 91
        THEN LET n == SkipWs(b, i + 1)
             IN  IF At(b, n) = 93 THEN JsonValue(n + 1, "array")
                 ELSE parse_array_items(b, n)
        ELSE IF i + 3 <= Len(b) /\ word(<<110, 117, 108, 108>>)
        THEN JsonValue(i + 4, "null")
        ELSE IF i + 3 <= Len(b) /\ word(<<116, 114, 117, 101>>)
        THEN JsonValue(i + 4, "bool")
        ELSE IF i + 4 <= Len(b) /\ word(<<102, 97, 108, 115, 101>>)
        THEN JsonValue(i + 5, "bool")
        ELSE IF i + 2 <= Len(b) /\ word(<<78, 97, 78>>)
        THEN JsonValue(i + 3, "float")
        ELSE IF i + 7 <= Len(b) /\ word(<<73, 110, 102, 105, 110, 105, 116, 121>>)
        THEN JsonValue(i + 8, "float")
        ELSE IF i + 8 <= Len(b) /\ word(<<45, 73, 110, 102, 105, 110, 105, 116, 121>>)
        THEN JsonValue(i + 9, "float")
        ELSE match_number(b, i)

\* [status |-> "ok" | "JSONDecodeError" | "UnicodeDecodeError" | "other-encoding",
\*  kind, sub]
json_loads(b) ==
    LET enc  == detect_encoding(b)
        text == IF enc = "utf-8-sig" THEN SubSeq(b, 4, Len(b)) ELSE b
        val  == scan_once(text, SkipWs(text, 1))
        bad(st) == [status |-> st, kind |-> "none", sub |-> "absent"]
    IN  IF enc = "other" THEN bad("other-encoding")
        ELSE IF ~utf8_decodes(text, 1) THEN bad("UnicodeDecodeError")
        ELSE IF ~val.ok \/ SkipWs(text, val.next) # Len(text) + 1
        THEN bad("JSONDecodeError")
        ELSE [status |-> "ok", kind |-> val.kind, sub |-> val.sub]

(***************************************************************************)
(* validate_and_truncate_jwt                                               *)
(***************************************************************************)
DisplayHead == 10
DisplayTail == 10
MaxDisplayLen == 30
JwtParts == 3

\* "N/A"
NA == <<"N","/","A">>

\* "...[INVALID]"
InvalidMark == <<".",".",".","[","I","N","V","A","L","I","D","]">>

\* "...[ERROR]"
ErrorMark == <<".",".",".","[","E","R","R","O","R","]">>

\* "..."
Ellipsis == <<".",".",".">>

\* "Invalid JWT structure: token must have 3 parts (header.payload.signature)"
MsgStructure ==
    <<"I","n","v","a","l","i","d"," ","J","W","T"," ","s","t","r","u","c",
      "t","u","r","e",":"," ","t","o","k","e","n"," ","m","u","s","t"," ",
      "h","a","v","e"," ","3"," ","p","a","r","t","s"," ","(","h","e","a",
      "d","e","r",".","p","a","y","l","o","a","d",".","s","i","g","n","a",
      "t","u","r","e",")">>

\* "Failed to decode JWT token: "
MsgDecode ==
    <<"F","a","i","l","e","d"," ","t","o"," ","d","e","c","o","d","e"," ",
      "J","W","T"," ","t","o","k","e","n",":"," ">>

\* "Error validating token: "
MsgError ==
    <<"E","r","r","o","r"," ","v","a","l","i","d","a","t","i","n","g"," ",
      "t","o","k","e","n",":"," ">>

\* str(e): the text of an exception, one opaque element named after its type
ExceptionText(e) == <<e>>

\* json.loads on the decoded bytes of one segment (lines 309, 314):
\* [raised |-> "none" or the exception, kind, sub]
parsed_segment(j) ==
    IF j.status # "ok"
    THEN [raised |-> j.status, kind |-> "none", sub |-> "absent"]
    ELSE [raised |-> "none", kind |-> j.kind, sub |-> j.sub]

\* the outcome of base64.urlsafe_b64decode followed by json.loads
decoded_segment(d) ==
    IF d.status # "ok"
    THEN [raised |-> d.status, kind |-> "none", sub |-> "absent"]
    ELSE parsed_segment(json_loads(d.bytes))

\* base64-decode and JSON-parse one segment (lines 307-309, 312-314)
decode_segment(seg) ==
    decoded_segment(urlsafe_b64decode(seg \o b64_padding(seg)))

\* The exception the log statement of line 316 raises on the parsed payload:
\* payload_json.get(...) needs a dict, and .get('sub', 'unknown')[:20] a
\* value that can be sliced.
log_claims_exception(payload) ==
    IF payload.kind # "object" THEN "AttributeError"
    ELSE IF payload.sub \notin {"absent", "string", "array"} THEN "TypeError"
    ELSE "none"

\* the first exception among the header's, the payload's and the log line's
first_exception(header, payload) ==
    IF header.raised # "none" THEN header.raised
    ELSE IF payload.raised # "none" THEN payload.raised
    ELSE log_claims_exception(payload)

\* The first exception raised in the inner try block (lines 301-316), the
\* header being decoded before the payload; "none" when the block completes.
jwt_decode_exception(parts) ==
    first_exception(decode_segment(parts[1]), decode_segment(parts[2]))

\* except (base64.binascii.Error, json.JSONDecodeError), line 318
DecodeErrors == {"binascii.Error", "JSONDecodeError"}

\* a plausible slip: len(token) >= 30
truncate_token_FromThirty(token) ==
    IF Len(token) >= MaxDisplayLen
    THEN Prefix(token, DisplayHead) \o Ellipsis \o Suffix(token, DisplayTail)
    ELSE token

\* lines 322-326
truncate_token(token) ==
    IF Len(token) > MaxDisplayLen
    THEN Prefix(token, DisplayHead) \o Ellipsis \o Suffix(token, DisplayTail)
    ELSE token

JwtResult(valid, display, error) ==
    [valid |-> valid, display |-> display, error |-> error]

\* a plausible slip: the inner handler catches base64.binascii.Error alone
jwt_outcome_NoJsonCatch(token, e) ==
    IF e = "binascii.Error"
    THEN JwtResult(FALSE, Prefix(token, DisplayHead) \o InvalidMark,
                   MsgDecode \o ExceptionText(e))
    ELSE IF e # "none"
    THEN JwtResult(FALSE, Prefix(token, DisplayHead) \o ErrorMark,
                   MsgError \o ExceptionText(e))
    ELSE JwtResult(TRUE, truncate_token(token), <<>>)

\* The handlers of lines 318-320 and 330-332 and the normal path of lines
\* 322-328, e being the exception the inner try block raised or "none".
jwt_outcome(token, e) ==
    IF e \in DecodeErrors
    THEN JwtResult(FALSE, Prefix(token, DisplayHead) \o InvalidMark,
                   MsgDecode \o ExceptionText(e))
    ELSE IF e # "none"
    THEN JwtResult(FALSE, Prefix(token, DisplayHead) \o ErrorMark,
                   MsgError \o ExceptionText(e))
    ELSE JwtResult(TRUE, truncate_token(token), <<>>)

\* the token split at its dots (line 295) and checked
validate_parts(token, parts) ==
    IF Len(parts) # JwtParts
    THEN JwtResult(FALSE, Prefix(token, DisplayHead) \o InvalidMark, MsgStructure)
    ELSE jwt_outcome(token, jwt_decode_exception(parts))

\* a plausible slip: len(parts) < 3, so that a fourth segment is let through
validate_and_truncate_jwt_AtLeastThree(token) ==
    IF token = <<>> \/ token = NA THEN JwtResult(TRUE, NA, <<>>)
    ELSE IF Len(str_split(token, ".")) < JwtParts
    THEN JwtResult(FALSE, Prefix(token, DisplayHead) \o InvalidMark, MsgStructure)
    ELSE jwt_outcome(token, jwt_decode_exception(str_split(token, ".")))

validate_and_truncate_jwt(token) ==
    IF token = <<>> \/ token = NA THEN JwtResult(TRUE, NA, <<>>)
    ELSE validate_parts(token, str_split(token, "."))

(***************************************************************************)
(* The tokens the validator is checked on: every token of at most          *)
(* MaxSegments segments of TokenSegments, joined by dots.                  *)
(***************************************************************************)
SegEmptyObject == <<"e","3","0">>                                 \* {}
SegNumber == <<"M","Q">>                                          \* 1
SegSubNumber == <<"e","y","J","z","d","W","I","i","O","j","F","9">>      \* {"sub":1}
SegSubString ==
    <<"e","y","J","z","d","W","I","i","O","i","J","h","I","n","0">>      \* {"sub":"a"}
SegNotJson == <<"e","A">>                                         \* x
SegOneChar == <<"a">>                          \* one data character: no base64
SegByteFF == <<"_","w">>                       \* the byte 0xFF: no UTF-8
SegNonAscii == <<"U+00E9">>                    \* not an ASCII string

TokenSegments ==
    {<<>>, SegEmptyObject, SegNumber, SegSubNumber, SegSubString, SegNotJson,
     SegOneChar, SegByteFF, SegNonAscii, NA}

Tokens ==
    UNION {{str_join(<<".">>, ps) : ps \in [1..n -> TokenSegments]} : n \in 1..MaxSegments}

\* json_loads is modelled for every segment of the tokens above
TokensAreModelled ==
    \A seg \in TokenSegments : decode_segment(seg).raised # "other-encoding"

InitJwt == arg \in Tokens /\ ret = None /\ StoreAtRest /\ TableLoaded

ApplyJwt ==
    /\ ret = None
    /\ ret' = Some(validate_and_truncate_jwt(arg))
    /\ UNCHANGED <<arg, storeVars, characters>>

SpecJwt == InitJwt /\ [][ApplyJwt]_vars

(***************************************************************************)
(* Properties of sanitize_filename (checked under SpecSanitize).           *)
(***************************************************************************)
\* the title with every space made an underscore and every character lowercased
LowerUnderscored(title) ==
    Concat([i \in 1..Len(title) |->
               IF title[i] = " " THEN <<"_">> ELSE char_lower(title[i])])

\* the part of s before its n-th occurrence of ch (s has at least n of them)
BeforeNth(s, ch, n) ==
    LET k == CHOOSE i \in 1..Len(s) :
                 s[i] = ch /\ str_count(SubSeq(s, 1, i), ch) = n
    IN  SubSeq(s, 1, k - 1)

SanitizeSteps(title) ==
    LET s0 == LowerUnderscored(title)
        s1 == IF str_count(s0, "_") > 3 THEN BeforeNth(s0, "_", 4) ELSE s0
        s2 == IF Len(s1) > 30 THEN SubSeq(s1, 1, 30) ELSE s1
    IN  s2 \o <<".", "m", "d">>

\* C7: sanitize_filename(title) is the title with spaces made underscores and
\* lowercased, cut to its first four underscore-separated tokens when it has
\* more than 3 underscores, then cut to 30 characters, then ".md" appended;
\* "My Great Story" gives "my_great_story.md", "One Two Three Four Five"
\* gives "one_two_three_four.md", and no result is longer than 33 characters.
C7_SanitizeSteps ==
    ret # None =>
        /\ ret[1] = SanitizeSteps(arg)
        /\ Len(ret[1]) <= 33
        /\ arg = TitleMyGreatStory =>
               ret[1] = <<"m","y","_","g","r","e","a","t","_","s","t","o","r","y",
                          ".","m","d">>
        /\ arg = TitleOneToFive =>
               ret[1] = <<"o","n","e","_","t","w","o","_","t","h","r","e","e","_",
                          "f","o","u","r",".","m","d">>

\* a title of more than 3 underscores has been cut to its first four tokens
C7_Witness ==
    /\ ret # None
    /\ arg = TitleOneToFive
    /\ str_count(ret[1], "_") = 3

(***************************************************************************)
(* Properties of validate_and_truncate_jwt (checked under SpecJwt).        *)
(***************************************************************************)
\* the number of dot-separated segments of a token
SegmentCount(token) == str_count(token, ".") + 1

\* the token's i-th dot-separated segment
Segment(token, i) == str_split(token, ".")[i]

InvalidDisplay(token) == Prefix(token, 10) \o InvalidMark

ErrorDisplay(token) == Prefix(token, 10) \o ErrorMark

\* C8: the empty token and "N/A" give (true, "N/A", ""); every other token
\* that does not split on "." into exactly three segments gives (false,
\* first 10 characters + "...[INVALID]", a non-empty message).
C8_PlaceholderAndSegmentCount ==
    ret # None =>
        /\ arg \in {<<>>, NA} =>
               ret[1] = [valid |-> TRUE, display |-> NA, error |-> <<>>]
        /\ (arg \notin {<<>>, NA} /\ SegmentCount(arg) # 3) =>
               /\ ret[1].valid = FALSE
               /\ ret[1].display = InvalidDisplay(arg)
               /\ ret[1].error # <<>>

\* a token of four segments has been rejected
C8_Witness ==
    /\ ret # None
    /\ SegmentCount(arg) = 4
    /\ Len(arg) > 10
    /\ ret[1].valid = FALSE

\* the segment decodes, as URL-safe base64, to the text of a JSON object
DecodesToObject(seg) ==
    decode_segment(seg).raised = "none" /\ decode_segment(seg).kind = "object"

\* the exception of the first of the two leading segments that fails to
\* decode, "none" when both decode
FirstDecodeFailure(token) ==
    IF decode_segment(Segment(token, 1)).raised # "none"
    THEN decode_segment(Segment(token, 1)).raised
    ELSE decode_segment(Segment(token, 2)).raised

\* C9 as stated: a three-segment token whose first or second segment does not
\* decode to JSON object text is invalid with display form first 10
\* characters + "...[INVALID]", and no invalid result has another display form.
C9_AsStated ==
    ret # None =>
        /\ (/\ arg # NA
            /\ SegmentCount(arg) = 3
            /\ ~(DecodesToObject(Segment(arg, 1)) /\ DecodesToObject(Segment(arg, 2)))) =>
               (~ret[1].valid /\ ret[1].display = InvalidDisplay(arg))
        /\ ~ret[1].valid => ret[1].display = InvalidDisplay(arg)

\* C9 (amended): a three-segment token is invalid with display form first 10
\* characters + "...[INVALID]" when the first of its two leading segments
\* that fails to decode fails with a base64 error or a JSON syntax error, and
\* invalid with first 10 characters + "...[ERROR]" when it fails with another
\* error (a segment that is not ASCII, bytes that are not UTF-8); every
\* invalid result has one of these two display forms.
C9_DecodeFailureDisplay ==
    ret # None =>
        /\ (SegmentCount(arg) = 3
              /\ FirstDecodeFailure(arg) \in {"binascii.Error", "JSONDecodeError"}) =>
               (~ret[1].valid /\ ret[1].display = InvalidDisplay(arg))
        /\ (SegmentCount(arg) = 3
              /\ FirstDecodeFailure(arg) \in {"ValueError", "UnicodeDecodeError"}) =>
               (~ret[1].valid /\ ret[1].display = ErrorDisplay(arg))
        /\ ~ret[1].valid => ret[1].display \in {InvalidDisplay(arg), ErrorDisplay(arg)}

\* a three-segment token whose header is base64 but not JSON has been rejected
C9_Witness ==
    /\ ret # None
    /\ SegmentCount(arg) = 3
    /\ Segment(arg, 1) = SegNotJson
    /\ ret[1].display = InvalidDisplay(arg)

\* C10: a three-segment token whose first two segments decode to JSON objects,
\* whatever they hold, is valid with an empty message and display form first
\* 10 characters + "..." + last 10 characters when longer than 30 characters,
\* the token itself otherwise.
C10_ObjectsAreValid ==
    ret # None =>
        ((/\ SegmentCount(arg) = 3
          /\ DecodesToObject(Segment(arg, 1))
          /\ DecodesToObject(Segment(arg, 2))) =>
            /\ ret[1].valid
            /\ ret[1].error = <<>>
            /\ ret[1].display =
                   IF Len(arg) > 30
                   THEN SubSeq(arg, 1, 10) \o Ellipsis \o SubSeq(arg, Len(arg) - 9, Len(arg))
                   ELSE arg)

(***************************************************************************)
(* The story file store: save_story and get_story.                         *)
(*                                                                         *)
(* A tool call runs on the server's single event loop, so the steps of a   *)
(* call are the stretches of code between two awaits: Invoke* (up to the   *)
(* await of log_session_info), *Body (the handler up to its next await)    *)
(* and Return (the final await and the return).  files holds the text of   *)
(* each file as stored; every character of the model has a UTF-8 encoding. *)
(***************************************************************************)
MaxDay == 2         \* the clock runs over the first MaxDay days of the month
MaxCalls == 2       \* at most this many tool calls are invoked in a run

\* "# "
H1 ==
    <<"#"," ">>

\* "\n\n"
BlankLine ==
    <<"\n","\n">>

\* "**Date Created:** "
LblDateCreated ==
    <<"*","*","D","a","t","e"," ","C","r","e","a","t","e","d",":","*","*",
      " ">>

\* "**Session ID:** "
LblSessionId ==
    <<"*","*","S","e","s","s","i","o","n"," ","I","D",":","*","*"," ">>

\* "stateless"
Stateless ==
    <<"s","t","a","t","e","l","e","s","s">>

\* "**Request ID:** "
LblRequestId ==
    <<"*","*","R","e","q","u","e","s","t"," ","I","D",":","*","*"," ">>

\* "\n\n---\n\n"
Rule ==
    <<"\n","\n","-","-","-","\n","\n">>

\* "## Request Metadata\n\n"
MetadataHeading ==
    <<"#","#"," ","R","e","q","u","e","s","t"," ","M","e","t","a","d","a",
      "t","a","\n","\n">>

\* "**Conversation ID:** "
LblConversationId ==
    <<"*","*","C","o","n","v","e","r","s","a","t","i","o","n"," ","I","D",
      ":","*","*"," ">>

\* "**X-Session-ID:** "
LblXSessionId ==
    <<"*","*","X","-","S","e","s","s","i","o","n","-","I","D",":","*","*",
      " ">>

\* "**X-Atmosphere-Token:** "
LblAtmosphereToken ==
    <<"*","*","X","-","A","t","m","o","s","p","h","e","r","e","-","T","o",
      "k","e","n",":","*","*"," ">>

\* "Error: "
MsgErrorPrefix ==
    <<"E","r","r","o","r",":"," ">>

\* ". Story was not saved."
MsgNotSaved ==
    <<"."," ","S","t","o","r","y"," ","w","a","s"," ","n","o","t"," ","s",
      "a","v","e","d",".">>

\* "X-Atmosphere-Token header is required but was not found in the request"
MsgTokenRequired ==
    <<"X","-","A","t","m","o","s","p","h","e","r","e","-","T","o","k","e",
      "n"," ","h","e","a","d","e","r"," ","i","s"," ","r","e","q","u","i",
      "r","e","d"," ","b","u","t"," ","w","a","s"," ","n","o","t"," ","f",
      "o","u","n","d"," ","i","n"," ","t","h","e"," ","r","e","q","u","e",
      "s","t">>

\* "Incoming atmosphere token was not correct: "
MsgTokenIncorrect ==
    <<"I","n","c","o","m","i","n","g"," ","a","t","m","o","s","p","h","e",
      "r","e"," ","t","o","k","e","n"," ","w","a","s"," ","n","o","t"," ",
      "c","o","r","r","e","c","t",":"," ">>

\* "Story has been saved at: "
MsgSavedAt ==
    <<"S","t","o","r","y"," ","h","a","s"," ","b","e","e","n"," ","s","a",
      "v","e","d"," ","a","t",":"," ">>

\* "Error saving story: "
MsgErrorSaving ==
    <<"E","r","r","o","r"," ","s","a","v","i","n","g"," ","s","t","o","r",
      "y",":"," ">>

\* "Story file not found."
MsgNotFound ==
    <<"S","t","o","r","y"," ","f","i","l","e"," ","n","o","t"," ","f","o",
      "u","n","d",".">>

\* "Error reading story file: "
MsgErrorReading ==
    <<"E","r","r","o","r"," ","r","e","a","d","i","n","g"," ","s","t","o",
      "r","y"," ","f","i","l","e",":"," ">>

\* "X-Atmosphere-Token"
XAtmosphereToken ==
    <<"X","-","A","t","m","o","s","p","h","e","r","e","-","T","o","k","e",
      "n">>

\* "January"
MonthName ==
    <<"J","a","n","u","a","r","y">>

\* "2025"
YearText ==
    <<"2","0","2","5">>

\* "/app"
Cwd ==
    <<"/","a","p","p">>

\* "old.md"
OldFile ==
    <<"o","l","d",".","m","d">>

\* "missing.md"
MissingFile ==
    <<"m","i","s","s","i","n","g",".","m","d">>

\* "# Old\n\nonce upon a time\n"
OldText ==
    <<"#"," ","O","l","d","\n","\n","o","n","c","e"," ","u","p","o","n"," ",
      "a"," ","t","i","m","e","\n">>

\* "# A b\n\nan earlier story\n"
EarlierText ==
    <<"#"," ","A"," ","b","\n","\n","a","n"," ","e","a","r","l","i","e","r",
      " ","s","t","o","r","y","\n">>

\* "a.b"
TokenTwoParts ==
    <<"a",".","b">>

\* "e30.e30.sig"
TokenShort ==
    <<"e","3","0",".","e","3","0",".","s","i","g">>

\* "e30.e30.ABCDEFGHIJKLMNOPQRSTUV"
TokenThirty ==
    <<"e","3","0",".","e","3","0",".","A","B","C","D","E","F","G","H","I",
      "J","K","L","M","N","O","P","Q","R","S","T","U","V">>

\* "e30.e30.ABCDEFGHIJKLMNOPQRSTUVW"
TokenLong ==
    <<"e","3","0",".","e","3","0",".","A","B","C","D","E","F","G","H","I",
      "J","K","L","M","N","O","P","Q","R","S","T","U","V","W">>

\* os.linesep of the platform the server runs on
LineSep == <<"\n">>

\* what a text-mode file (newline=None) stores for the text s: "\n" -> linesep
text_write(s) ==
    Concat([i \in 1..Len(s) |-> IF s[i] = "\n" THEN LineSep ELSE <<s[i]>>])

\* what a text-mode file (newline=None) reads from the stored text s:
\* universal newlines, "\r\n" and "\r" are both read as "\n"
text_read(s) ==
    Concat([i \in 1..Len(s) |->
               IF s[i] = "\r" THEN <<"\n">>
               ELSE IF s[i] = "\n" /\ i > 1 /\ s[i - 1] = "\r" THEN <<>>
               ELSE <<s[i]>>])

\* "%d": the day of the month, two digits
two_digits(n) == <<Digits[(n \div 10) + 1], Digits[(n % 10) + 1]>>

\* datetime.now().strftime("%B %d, %Y"), the clock being at day `day` (0-based)
get_current_date(day) ==
    MonthName \o <<" ">> \o two_digits(day + 1) \o <<",", " ">> \o YearText

RECURSIVE normpath_parts(_, _)
normpath_parts(parts, kept) ==
    IF parts = <<>> THEN kept
    ELSE IF Head(parts) = <<>> \/ Head(parts) = <<".">>
    THEN normpath_parts(Tail(parts), kept)
    ELSE IF Head(parts) = <<".", ".">>
    THEN normpath_parts(Tail(parts), Prefix(kept, Len(kept) - 1))
    ELSE normpath_parts(Tail(parts), Append(kept, Head(parts)))

\* os.path.normpath of an absolute path: empty and "." components are
\* dropped, ".." drops the component before it (none at the root), and a
\* path that starts with exactly two slashes keeps both
normpath(path) ==
    (IF StartsWith(path, <<"/", "/">>) /\ ~StartsWith(path, <<"/", "/", "/">>)
     THEN <<"/", "/">> ELSE <<"/">>)
        \o str_join(<<"/">>, normpath_parts(str_split(path, "/"), <<>>))

\* os.path.abspath(filename): normpath(join(os.getcwd(), filename))
abspath(filename) ==
    normpath(IF StartsWith(filename, <<"/">>) THEN filename
             ELSE Cwd \o <<"/">> \o filename)

\* headers.get(name, 'N/A'), h being None when the request has no such header
header_get(h) == IF h = None THEN NA ELSE h[1]

\* ctx.session_id or 'stateless'
session_or_stateless(sid) ==
    IF sid = None \/ sid[1] = <<>> THEN Stateless ELSE sid[1]

\* a plausible slip: the content written before the Request ID line
story_writes_ContentFirst(call, date_created, truncated_token) ==
    << H1 \o call.title \o BlankLine,
       LblDateCreated \o date_created \o BlankLine,
       LblSessionId \o session_or_stateless(call.session_id) \o BlankLine,
       call.content,
       LblRequestId \o call.request_id \o BlankLine,
       Rule,
       MetadataHeading,
       LblConversationId \o header_get(call.headers.conv) \o BlankLine,
       LblXSessionId \o header_get(call.headers.xsid) \o BlankLine,
       LblAtmosphereToken \o truncated_token \o <<"\n">> >>

\* the arguments of the f.write calls of lines 378-390, in order
story_writes(call, date_created, truncated_token) ==
    << H1 \o call.title \o BlankLine,
       LblDateCreated \o date_created \o BlankLine,
       LblSessionId \o session_or_stateless(call.session_id) \o BlankLine,
       LblRequestId \o call.request_id \o BlankLine,
       call.content,
       Rule,
       MetadataHeading,
       LblConversationId \o header_get(call.headers.conv) \o BlankLine,
       LblXSessionId \o header_get(call.headers.xsid) \o BlankLine,
       LblAtmosphereToken \o truncated_token \o <<"\n">> >>

\* the text stored by the first n of these writes
stored_text(writes, n) == text_write(Concat(Prefix(writes, n)))

(***************************************************************************)
(* The requests of the model.                                              *)
(***************************************************************************)
TitleUpperA == <<"A", " ", "b">>
TitleUpperB == <<"a", " ", "B">>

\* two titles that derive the same file name, a_b.md
StoryTitles == {TitleUpperA, TitleUpperB}

\* the second content holds a carriage return
Contents == {<<"x">>, <<"y", "\r", "z">>}

\* whether the call has an HTTP request, ctx.session_id, and the
\* x-conversation-id and x-session-id headers
Contexts ==
    { [http |-> TRUE, session_id |-> None, conv |-> None, xsid |-> None],
      [http |-> TRUE, session_id |-> Some(<<"s", "1">>),
       conv |-> Some(<<"c", "1">>), xsid |-> Some(<<"x", "1">>)] }

\* the x-atmosphere-token header: absent, or present with a value
TokenHeaders ==
    { None, Some(<<>>), Some(NA), Some(TokenTwoParts), Some(TokenShort),
      Some(TokenThirty), Some(TokenLong) }

\* "notes.txt"
TextFile ==
    <<"n","o","t","e","s",".","t","x","t">>

\* "NOTES.MD"
UpperFile ==
    <<"N","O","T","E","S",".","M","D">>

\* "to do\n"
NotesText ==
    <<"t","o"," ","d","o","\n">>

\* "../c"
TitleParent ==
    <<".",".","/","c">>


\* the titles of SpecTools: one derives a_b.md, one a path of the parent
\* directory
ToolTitles == {TitleUpperA, TitleParent}

\* the paths the model follows, relative to the working directory; the
\* server's own log file is not among them
Paths ==
    {sanitize_filename(t) : t \in StoryTitles \cup ToolTitles}
        \cup {OldFile, MissingFile, TextFile, UpperFile}

\* the f.write calls of one save (lines 378-390); the fifth writes the content
NumWrites == 10
ContentWrite == 5

\* open(filename, "w") and the writes: all succeed, or open fails, or a write
\* fails after `cut` of the writes have reached the file: the first write
\* (nothing is stored) or the write of the content (it cannot be encoded)
IoOutcomes ==
    { [kind |-> "ok", cut |-> NumWrites],
      [kind |-> "open_error", cut |-> 0],
      [kind |-> "write_error", cut |-> 0],
      [kind |-> "write_error", cut |-> ContentWrite - 1] }

\* open(filename, "r") and f.read()
ReadOutcomes == {"ok", "read_error"}

\* a request without any of the three headers
NoHeaders == [conv |-> None, xsid |-> None, token |-> None]

\* a call slot: the arguments and the context of the call, the locals of the
\* handler, what the call did (io, wrote, seen are history), and what it
\* returned (result) or the exception that left the handler (raised)
IdleCall ==
    [ op |-> "none", pc |-> "idle",
      title |-> <<>>, content |-> <<>>, filename |-> <<>>, reason |-> <<>>,
      http |-> TRUE, session_id |-> None, request_id |-> <<>>,
      headers |-> NoHeaders,
      date_created |-> <<>>, truncated_token |-> <<>>,
      io |-> "none", wrote |-> FALSE, seen |-> None,
      raised |-> "none", result |-> <<>> ]

\* ctx.request_id of the n-th call
request_id(n) == <<Digits[(n % 10) + 1]>>

(***************************************************************************)
(* save_story (lines 336-398)                                              *)
(***************************************************************************)
\* lines 343-344: the locals every path of the handler sets
save_entered(call, date_created) ==
    [call EXCEPT !.filename = sanitize_filename(call.title),
                 !.date_created = date_created]

\* a plausible slip: the handler ends in `raise`
caught_Reraised(call, e, prefix) == [call EXCEPT !.raised = e]

\* except Exception as e (lines 395-398 and 436-438): the handler returns
\* the error string
caught(call, e, prefix) == [call EXCEPT !.result = prefix \o ExceptionText(e)]

\* lines 359-363 and 368-372: the save is refused, no file is opened
save_refused(call, message) ==
    [ call |-> [call EXCEPT !.pc = "replying",
                            !.result = MsgErrorPrefix \o message \o MsgNotSaved],
      opened |-> FALSE, text |-> <<>>, ok |-> FALSE ]

\* lines 377-398: the file is opened for writing and the ten writes are made
save_written(call, truncated_token, io, writes) ==
    IF io.kind = "open_error"
    THEN [ call |-> caught([call EXCEPT !.pc = "replying",
                                        !.truncated_token = truncated_token,
                                        !.io = io.kind],
                           "OSError", MsgErrorSaving),
           opened |-> FALSE, text |-> <<>>, ok |-> FALSE ]
    ELSE IF io.kind = "write_error"
    THEN [ call |-> caught([call EXCEPT !.pc = "replying",
                                        !.truncated_token = truncated_token,
                                        !.io = io.kind],
                           "OSError", MsgErrorSaving),
           opened |-> TRUE, text |-> stored_text(writes, io.cut), ok |-> FALSE ]
    ELSE [ call |-> [call EXCEPT !.pc = "replying",
                                 !.truncated_token = truncated_token,
                                 !.io = io.kind,
                                 !.wrote = TRUE,
                                 !.result = MsgSavedAt \o abspath(call.filename)],
           opened |-> TRUE, text |-> stored_text(writes, Len(writes)), ok |-> TRUE ]

\* lines 366-372: the token is validated
save_validated(call, jwt, io) ==
    IF ~jwt.valid
    THEN save_refused(call, MsgTokenIncorrect \o jwt.error)
    ELSE save_written(call, jwt.display, io,
                      story_writes(call, call.date_created, jwt.display))

\* a plausible slip: the check of lines 359-363 left out
token_missing_Never(atmosphere_token) == FALSE

\* line 359: the header counts as missing
token_missing(atmosphere_token) == atmosphere_token = NA

\* lines 353-398, atmosphere_token being headers.get('x-atmosphere-token', 'N/A')
save_checked(call, atmosphere_token, io) ==
    IF token_missing(atmosphere_token)
    THEN save_refused(call, MsgTokenRequired)
    ELSE save_validated(call, validate_and_truncate_jwt(atmosphere_token), io)

\* get_http_headers(include_all=True): the headers of the HTTP request of the
\* call, RuntimeError when the call has none
get_http_headers(call) ==
    IF call.http THEN [raised |-> "none", headers |-> call.headers]
    ELSE [raised |-> "RuntimeError", headers |-> NoHeaders]

\* lines 347-351: try: headers = get_http_headers(...) or {}; except: {}
headers_or_empty(got) ==
    IF got.raised # "none" THEN [raised |-> "none", headers |-> NoHeaders]
    ELSE got

\* lines 353-398, headers being the local of lines 347-351
save_with_headers(call, got, io) ==
    IF got.raised # "none"
    THEN [ call |-> [call EXCEPT !.pc = "replying", !.raised = got.raised],
           opened |-> FALSE, text |-> <<>>, ok |-> FALSE ]
    ELSE save_checked([call EXCEPT !.headers = got.headers],
                      header_get(got.headers.token), io)

save_story(call, date_created, io) ==
    save_with_headers(save_entered(call, date_created),
                      headers_or_empty(get_http_headers(call)), io)

\* a plausible slip: mode "a", the file keeps what it held
open_w_Append(old) == IF old = None THEN <<>> ELSE old[1]

\* open(filename, "w"): what the file holds once opened, old being what it
\* held before (None when it did not exist)
open_w(old) == <<>>

\* the effect of a save on the file store and on the call
SaveStep(c, out) ==
    /\ calls' = [calls EXCEPT ![c] = out.call]
    /\ files' = IF out.opened
                THEN [files EXCEPT ![out.call.filename] =
                          Some(open_w(files[out.call.filename]) \o out.text)]
                ELSE files
    /\ lastWrite' = IF out.opened
                    THEN [lastWrite EXCEPT ![out.call.filename] =
                              Some([call |-> out.call, ok |-> out.ok])]
                    ELSE lastWrite

InvokeSave(c, title, content, context, token) ==
    /\ served < MaxCalls
    /\ calls[c].pc \in {"idle", "done"}
    /\ calls' = [calls EXCEPT ![c] =
                    [IdleCall EXCEPT !.op = "save", !.pc = "entered",
                                     !.title = title, !.content = content,
                                     !.http = context.http,
                                     !.session_id = context.session_id,
                                     !.request_id = request_id(served + 1),
                                     !.headers = [conv |-> context.conv,
                                                  xsid |-> context.xsid,
                                                  token |-> token]]]
    /\ served' = served + 1
    /\ UNCHANGED <<pureVars, characters, files, today, lastWrite>>

SaveBody(c, io) ==
    /\ calls[c].op = "save"
    /\ calls[c].pc = "entered"
    /\ SaveStep(c, save_story(calls[c], get_current_date(today), io))
    /\ UNCHANGED <<pureVars, characters, today, served>>

(***************************************************************************)
(* get_story (lines 419-438)                                               *)
(***************************************************************************)
\* the call once its body has run, stored being what the file holds
get_story(call, stored, io) ==
    IF stored = None THEN [call EXCEPT !.result = MsgNotFound]
    ELSE IF io = "read_error" THEN caught(call, "OSError", MsgErrorReading)
    ELSE [call EXCEPT !.result = text_read(stored[1])]

InvokeGet(c, filename) ==
    /\ served < MaxCalls
    /\ calls[c].pc \in {"idle", "done"}
    /\ calls' = [calls EXCEPT ![c] =
                    [IdleCall EXCEPT !.op = "get", !.pc = "entered",
                                     !.filename = filename,
                                     !.request_id = request_id(served + 1)]]
    /\ served' = served + 1
    /\ UNCHANGED <<pureVars, characters, files, today, lastWrite>>

GetBody(c, io) ==
    /\ calls[c].op = "get"
    /\ calls[c].pc = "entered"
    /\ calls' = [calls EXCEPT ![c] =
                    [get_story(calls[c], files[calls[c].filename], io) EXCEPT
                         !.pc = "replying",
                         !.io = io,
                         !.seen = lastWrite[calls[c].filename]]]
    /\ UNCHANGED <<pureVars, characters, files, today, served, lastWrite>>

\* the last await of a handler and its return statement
Return(c) ==
    /\ calls[c].pc = "replying"
    /\ calls' = [calls EXCEPT ![c].pc = "done"]
    /\ UNCHANGED <<pureVars, characters, files, today, served, lastWrite>>

\* midnight
Tick ==
    /\ today + 1 < MaxDay
    /\ today' = today + 1
    /\ UNCHANGED <<pureVars, characters, files, calls, served, lastWrite>>

(***************************************************************************)
(* Spec: one call at a time, over every request of the model.              *)
(***************************************************************************)
\* the file name both titles of StoryTitles derive
StoryPath == sanitize_filename(TitleUpperA)

\* old.md, NOTES.MD and notes.txt exist, no other path does
BaseStore ==
    [p \in Paths |->
        IF p \in {OldFile, UpperFile} THEN Some(OldText)
        ELSE IF p = TextFile THEN Some(NotesText)
        ELSE None]

\* a_b.md exists or not
InitialStores == {BaseStore, [BaseStore EXCEPT ![StoryPath] = Some(EarlierText)]}

Init ==
    /\ arg = None
    /\ ret = None
    /\ files \in InitialStores
    /\ calls = [c \in 1..1 |-> IdleCall]
    /\ today = 0
    /\ served = 0
    /\ lastWrite = [p \in Paths |-> None]
    /\ TableLoaded

Next ==
    \/ \E c \in DOMAIN calls, title \in StoryTitles, content \in Contents,
          context \in Contexts, token \in TokenHeaders :
           InvokeSave(c, title, content, context, token)
    \/ \E c \in DOMAIN calls, filename \in Paths : InvokeGet(c, filename)
    \/ \E c \in DOMAIN calls, io \in IoOutcomes : SaveBody(c, io)
    \/ \E c \in DOMAIN calls, io \in ReadOutcomes : GetBody(c, io)
    \/ \E c \in DOMAIN calls : Return(c)
    \/ Tick

Spec == Init /\ [][Next]_vars

(***************************************************************************)
(* SpecRace: two calls in flight at once, saving under colliding titles.   *)
(***************************************************************************)
MaxInFlight == 2    \* the call slots of SpecRace

\* a_b.md exists
RaceStore == [BaseStore EXCEPT ![StoryPath] = Some(EarlierText)]

RaceContext ==
    [http |-> TRUE, session_id |-> Some(<<"s", "1">>),
     conv |-> Some(<<"c", "1">>), xsid |-> None]

InitRace ==
    /\ arg = None
    /\ ret = None
    /\ files = RaceStore
    /\ calls = [c \in 1..MaxInFlight |-> IdleCall]
    /\ today = 0
    /\ served = 0
    /\ lastWrite = [p \in Paths |-> None]
    /\ TableLoaded

NextRace ==
    \/ \E c \in DOMAIN calls, title \in StoryTitles, content \in Contents :
           InvokeSave(c, title, content, RaceContext, Some(TokenShort))
    \/ \E c \in DOMAIN calls, io \in IoOutcomes : SaveBody(c, io)
    \/ \E c \in DOMAIN calls : Return(c)
    \/ Tick

SpecRace == InitRace /\ [][NextRace]_vars

(***************************************************************************)
(* Properties of save_story and get_story (checked under Spec, where one   *)
(* call runs at a time, and under SpecRace).                               *)
(***************************************************************************)
\* the call of slot c is a save_story whose body has run
SaveRan(c) == calls[c].op = "save" /\ calls[c].pc \in {"replying", "done"}

\* the call of slot c is a get_story whose body has run
GetRan(c) == calls[c].op = "get" /\ calls[c].pc \in {"replying", "done"}

\* what the file of the call of slot c holds
StoredBy(c) == files[calls[c].filename][1]

\* C1: a save_story call whose request carries no x-atmosphere-token header
\* returns a string containing "X-Atmosphere-Token" and leaves every file as
\* it was: none is created, none (the one at the derived file name included)
\* is modified or truncated.
C1_MissingHeaderRefused ==
    [][\A c \in DOMAIN calls :
          ( /\ calls[c].op = "save"
            /\ calls[c].pc = "entered"
            /\ calls[c].headers.token = None
            /\ calls'[c].pc = "replying" )
          => ( /\ files' = files
               /\ Contains(calls'[c].result, XAtmosphereToken) )]_vars

\* a save without the header has returned, a file existing at its file name
C1_Witness ==
    \E c \in DOMAIN calls :
        /\ SaveRan(c)
        /\ calls[c].pc = "done"
        /\ calls[c].headers.token = None
        /\ files[calls[c].filename] = Some(EarlierText)
        /\ Contains(calls[c].result, XAtmosphereToken)

\* C2: when the request carries the header (with any value, "" and "N/A"
\* included) and no I/O fails, the document is written exactly when
\* validate_and_truncate_jwt reports the value valid, and an invalid value
\* gives an error string and no write.
C2_WrittenIffValid ==
    \A c \in DOMAIN calls :
        ( /\ SaveRan(c)
          /\ calls[c].headers.token # None
          /\ calls[c].io \notin {"open_error", "write_error"} )
        => ( /\ calls[c].wrote = validate_and_truncate_jwt(calls[c].headers.token[1]).valid
             /\ ~calls[c].wrote => StartsWith(calls[c].result, MsgErrorPrefix) )

\* the text between the last "**X-Atmosphere-Token:** " of a document and
\* the newline that ends it
WrittenToken(text) ==
    LET n == Len(LblAtmosphereToken)
        k == CHOOSE i \in 0..(Len(text) - n) :
                 /\ SubSeq(text, i + 1, i + n) = LblAtmosphereToken
                 /\ \A j \in (i + 1)..(Len(text) - n) :
                        SubSeq(text, j + 1, j + n) # LblAtmosphereToken
    IN  SubSeq(text, k + n + 1, Len(text) - 1)

\* C3 as stated: on every successful save the string written after
\* "**X-Atmosphere-Token:**" differs from the raw header value, whatever the
\* length of the token.
C3_AsStated ==
    \A c \in DOMAIN calls :
        (SaveRan(c) /\ calls[c].wrote)
        => WrittenToken(StoredBy(c)) # calls[c].headers.token[1]

\* the display form of a valid token, from its description
DisplayForm(raw) ==
    IF raw = <<>> THEN <<"N", "/", "A">>
    ELSE IF Len(raw) > 30
    THEN SubSeq(raw, 1, 10) \o <<".", ".", ".">> \o SubSeq(raw, Len(raw) - 9, Len(raw))
    ELSE raw

\* C3: on every successful save the string written after
\* "**X-Atmosphere-Token:**" is the display form of the token: "N/A" for an
\* empty value, the first 10 characters, "..." and the last 10 characters for
\* a token longer than 30 characters, and the raw value itself for a token of
\* 30 characters or fewer; it differs from the raw value in the first two
\* cases only.
C3_DisplayFormWritten ==
    \A c \in DOMAIN calls :
        (SaveRan(c) /\ calls[c].wrote)
        => /\ WrittenToken(StoredBy(c)) = DisplayForm(calls[c].headers.token[1])
           /\ (WrittenToken(StoredBy(c)) # calls[c].headers.token[1])
                  <=> ( \/ calls[c].headers.token[1] = <<>>
                        \/ Len(calls[c].headers.token[1]) > 30 )

\* a token of 31 characters has been written shortened, the file not holding it
C3_Witness ==
    \E c \in DOMAIN calls :
        /\ SaveRan(c)
        /\ calls[c].wrote
        /\ calls[c].headers.token = Some(TokenLong)
        /\ Len(WrittenToken(StoredBy(c))) = 23
        /\ ~Contains(StoredBy(c), TokenLong)

\* the metadata footer of the document of a call
FooterOf(call) ==
    <<"\n", "\n", "-", "-", "-", "\n", "\n">>
        \o MetadataHeading
        \o LblConversationId
        \o (IF call.headers.conv = None THEN <<"N", "/", "A">> ELSE call.headers.conv[1])
        \o <<"\n", "\n">>
        \o LblXSessionId
        \o (IF call.headers.xsid = None THEN <<"N", "/", "A">> ELSE call.headers.xsid[1])
        \o <<"\n", "\n">>
        \o LblAtmosphereToken \o DisplayForm(call.headers.token[1]) \o <<"\n">>

\* the heading line, a blank line, the date line and a blank line
HeadingAndDate(call) ==
    <<"#", " ">> \o call.title \o <<"\n", "\n">>
        \o LblDateCreated \o call.date_created \o <<"\n", "\n">>

\* the Session ID line, a blank line, the Request ID line and a blank line
IdentifierLines(call) ==
    LblSessionId
        \o (IF call.session_id = None THEN Stateless ELSE call.session_id[1])
        \o <<"\n", "\n">>
        \o LblRequestId \o call.request_id \o <<"\n", "\n">>

\* C4 as stated: the document of a successful save is the heading line, a
\* blank line, the date line, a blank line and then immediately the raw
\* content, followed only by the metadata footer.
C4_AsStated ==
    \A c \in DOMAIN calls :
        (SaveRan(c) /\ calls[c].wrote)
        => StoredBy(c) = HeadingAndDate(calls[c]) \o calls[c].content \o FooterOf(calls[c])

\* C4: the document of a successful save is the heading line "# {title}", a
\* blank line, the line "**Date Created:** {date}", a blank line, the line
\* "**Session ID:** {session id, or stateless}", a blank line, the line
\* "**Request ID:** {request id}", a blank line, then the raw content,
\* followed only by the metadata footer; the date is the date of the clock
\* in the form "January 02, 2025".
C4_DocumentLayout ==
    \A c \in DOMAIN calls :
        (SaveRan(c) /\ calls[c].wrote)
        => /\ StoredBy(c) = HeadingAndDate(calls[c]) \o IdentifierLines(calls[c])
                                \o calls[c].content \o FooterOf(calls[c])
           /\ \E d \in 1..(today + 1) :
                  calls[c].date_created =
                      <<"J", "a", "n", "u", "a", "r", "y", " ">>
                          \o <<Digits[(d \div 10) + 1], Digits[(d % 10) + 1]>>
                          \o <<",", " ", "2", "0", "2", "5">>

\* a save without a session has written its document on the second day
C4_Witness ==
    \E c \in DOMAIN calls :
        /\ SaveRan(c)
        /\ calls[c].wrote
        /\ calls[c].session_id = None
        /\ calls[c].content = <<"y", "\r", "z">>
        /\ Contains(StoredBy(c), LblSessionId \o Stateless)
        /\ Contains(StoredBy(c), <<"J", "a", "n", "u", "a", "r", "y", " ", "0", "2">>)

\* C5: whenever save_story reports success, a following get_story of the
\* derived file name, no save in between, returns text that contains the
\* heading "# {title}", the "**Date Created:**" line and the original
\* content.
C5_RoundTrip ==
    \A c \in DOMAIN calls :
        ( /\ GetRan(c)
          /\ calls[c].io = "ok"
          /\ calls[c].seen # None
          /\ calls[c].seen[1].ok )
        => ( /\ Contains(calls[c].result, <<"#", " ">> \o calls[c].seen[1].call.title)
             /\ Contains(calls[c].result,
                         LblDateCreated \o calls[c].seen[1].call.date_created)
             /\ Contains(calls[c].result, calls[c].seen[1].call.content) )

\* C6: after any interleaving of save_story calls whose titles derive the
\* same file name, a file whose last write succeeded holds exactly the
\* complete document of the call that wrote it last, nothing of an earlier
\* save or of the earlier file with it, and a file no call wrote is as it was.
C6_LastWriterWins ==
    \A p \in Paths :
        IF lastWrite[p] = None THEN files[p] = RaceStore[p]
        ELSE lastWrite[p][1].ok
             => files[p] = Some(HeadingAndDate(lastWrite[p][1].call)
                                    \o IdentifierLines(lastWrite[p][1].call)
                                    \o lastWrite[p][1].call.content
                                    \o FooterOf(lastWrite[p][1].call))

\* two saves under different titles are in flight, both have written a_b.md
C6_Witness ==
    /\ DOMAIN calls = {1, 2}
    /\ SaveRan(1) /\ SaveRan(2)
    /\ calls[1].pc = "replying" /\ calls[2].pc = "replying"
    /\ calls[1].wrote /\ calls[2].wrote
    /\ calls[1].title # calls[2].title
    /\ calls[1].filename = calls[2].filename
    /\ lastWrite[calls[1].filename][1].call.title = calls[1].title

\* C11: get_story returns "Story file not found." when no file exists at the
\* path and otherwise, its read succeeding, the full stored content of the
\* file.
C11_ReturnsStoredContent ==
    \A c \in DOMAIN calls :
        (GetRan(c) /\ calls[c].io = "ok")
        => calls[c].result =
               IF files[calls[c].filename] = None
               THEN <<"S", "t", "o", "r", "y", " ", "f", "i", "l", "e", " ",
                      "n", "o", "t", " ", "f", "o", "u", "n", "d", ".">>
               ELSE files[calls[c].filename][1]

(***************************************************************************)
(* list_stories (lines 402-415)                                            *)
(***************************************************************************)
\* the path names an entry of the working directory itself
in_working_directory(path) == str_count(path, "/") = 0

\* two orders in which the file system may enumerate the paths
DirOrders ==
    { <<StoryPath, OldFile, MissingFile, TextFile, UpperFile,
        sanitize_filename(TitleParent)>>,
      <<sanitize_filename(TitleParent), UpperFile, TextFile, MissingFile,
        OldFile, StoryPath>> }

\* os.listdir('.'): the names of the entries of the working directory
listdir(store, order) ==
    SelectSeq(order, LAMBDA p : store[p] # None /\ in_working_directory(p))

\* a plausible slip: the extension compared without regard to case
md_entries_AnyCase(entries) ==
    SelectSeq(entries, LAMBDA f : EndsWith(str_lower(f), DotMd))

\* [f for f in entries if f.endswith('.md')]
md_entries(entries) == SelectSeq(entries, LAMBDA f : EndsWith(f, DotMd))

\* os.listdir succeeds or fails
ListOutcomes == {"ok", "listdir_error"}

\* the reason argument
Reasons == {<<>>, <<"w", "h", "y">>}

\* the call once its body has run; line 415 returns [] on any exception
list_stories(call, store, order, io) ==
    IF io = "listdir_error" THEN [call EXCEPT !.result = <<>>]
    ELSE [call EXCEPT !.result = md_entries(listdir(store, order))]

InvokeList(c, reason) ==
    /\ served < MaxCalls
    /\ calls[c].pc \in {"idle", "done"}
    /\ calls' = [calls EXCEPT ![c] =
                    [IdleCall EXCEPT !.op = "list", !.pc = "entered",
                                     !.reason = reason,
                                     !.request_id = request_id(served + 1)]]
    /\ served' = served + 1
    /\ UNCHANGED <<pureVars, characters, files, today, lastWrite>>

ListBody(c, io, order) ==
    /\ calls[c].op = "list"
    /\ calls[c].pc = "entered"
    /\ calls' = [calls EXCEPT ![c] =
                    [list_stories(calls[c], files, order, io) EXCEPT
                         !.pc = "replying",
                         !.io = io]]
    /\ UNCHANGED <<pureVars, characters, files, today, served, lastWrite>>

(***************************************************************************)
(* SpecTools: the three file tools, one call at a time, over titles with   *)
(* and without a directory part, with and without an HTTP request, in      *)
(* working directories with and without stories.                           *)
(***************************************************************************)
NoHttpContext == [http |-> FALSE, session_id |-> None, conv |-> None, xsid |-> None]

HttpContext ==
    [http |-> TRUE, session_id |-> Some(<<"s", "1">>), conv |-> None, xsid |-> None]

\* a call without an HTTP request has no header
ToolRequests ==
    { [context |-> NoHttpContext, token |-> None],
      [context |-> HttpContext, token |-> None],
      [context |-> HttpContext, token |-> Some(TokenShort)] }

EmptyStore == [p \in Paths |-> None]

\* the working directory is empty, or holds notes.txt alone, or is one of
\* InitialStores
ToolStores ==
    InitialStores \cup {EmptyStore, [EmptyStore EXCEPT ![TextFile] = Some(NotesText)]}

InitTools ==
    /\ arg = None
    /\ ret = None
    /\ files \in ToolStores
    /\ calls = [c \in 1..1 |-> IdleCall]
    /\ today = 0
    /\ served = 0
    /\ lastWrite = [p \in Paths |-> None]
    /\ TableLoaded

NextTools ==
    \/ \E c \in DOMAIN calls, title \in ToolTitles, content \in Contents,
          request \in ToolRequests :
           InvokeSave(c, title, content, request.context, request.token)
    \/ \E c \in DOMAIN calls, filename \in Paths : InvokeGet(c, filename)
    \/ \E c \in DOMAIN calls, reason \in Reasons : InvokeList(c, reason)
    \/ \E c \in DOMAIN calls, io \in IoOutcomes : SaveBody(c, io)
    \/ \E c \in DOMAIN calls, io \in ReadOutcomes : GetBody(c, io)
    \/ \E c \in DOMAIN calls, io \in ListOutcomes, order \in DirOrders :
           ListBody(c, io, order)
    \/ \E c \in DOMAIN calls : Return(c)
    \/ Tick

SpecTools == InitTools /\ [][NextTools]_vars

(***************************************************************************)
(* Properties of the file tools (checked under SpecTools).                 *)
(***************************************************************************)
\* the call of slot c is a list_stories whose body has run
ListRan(c) == calls[c].op = "list" /\ calls[c].pc \in {"replying", "done"}

\* the entries of the working directory whose name ends with ".md"
MarkdownEntries ==
    { p \in Paths :
        /\ files[p] # None
        /\ \A i \in 1..Len(p) : p[i] # "/"
        /\ Len(p) >= 3
        /\ SubSeq(p, Len(p) - 2, Len(p)) = <<".", "m", "d">> }

\* C12: list_stories never fails; when os.listdir succeeds it returns each
\* directory entry whose name ends with ".md" once and no other name,
\* whatever the reason argument, and so the empty sequence when the
\* directory has no such entry or is empty.
C12_ListsMarkdownEntries ==
    \A c \in DOMAIN calls :
        ListRan(c)
        => /\ calls[c].raised = "none"
           /\ calls[c].io = "ok"
                  => /\ {calls[c].result[i] : i \in 1..Len(calls[c].result)}
                            = MarkdownEntries
                     /\ Len(calls[c].result) = Cardinality(MarkdownEntries)
                     /\ MarkdownEntries = {} => calls[c].result = <<>>

\* a listing, a reason given, names stories while the directory also holds
\* notes.txt and NOTES.MD and the parent directory holds c.md
C12_Witness ==
    \E c \in DOMAIN calls :
        /\ ListRan(c)
        /\ calls[c].io = "ok"
        /\ calls[c].reason # <<>>
        /\ Len(calls[c].result) = 2
        /\ files[TextFile] # None
        /\ files[UpperFile] # None
        /\ files[sanitize_filename(TitleParent)] # None

(***************************************************************************)
(* get_characters, get_backstory and get_superpower (lines 216-267)        *)
(***************************************************************************)
MaxNameLen == 3     \* a looked-up name is at most this many NameLetters

\* the empty dict
EmptyDict == [k \in {} |-> <<>>]

\* CHARACTERS.get(key, default)
dict_get(table, key, default) ==
    IF \E i \in 1..Len(table) : table[i].key = key
    THEN table[CHOOSE i \in 1..Len(table) : table[i].key = key].value
    ELSE default

\* d.get(field, default) on the dict of one character
field_get(d, field, default) == IF field \in DOMAIN d THEN d[field] ELSE default

\* list(CHARACTERS.keys())
get_characters(table) == [i \in 1..Len(table) |-> table[i].key]

get_backstory(character, table) ==
    field_get(dict_get(table, character, EmptyDict), "backstory", CharacterNotFound)

\* a plausible slip: the key of get_backstory left in place
get_superpower_Backstory(character, table) ==
    field_get(dict_get(table, character, EmptyDict), "backstory", CharacterNotFound)

get_superpower(character, table) ==
    field_get(dict_get(table, character, EmptyDict), "superpower", CharacterNotFound)

NameLetters == {"R", "a", "m", "r"}

\* every name of at most MaxNameLen letters ("Ram" is one), the other two
\* keys, and some names close to a key or to a field of the table
LookupNames ==
    UNION {[1..n -> NameLetters] : n \in 0..MaxNameLen}
        \cup { NameJack, NameRobert, str_lower(NameJack), NameJack \o <<" ">>,
               <<"b", "a", "c", "k", "s", "t", "o", "r", "y">>, CharacterNotFound }

LookupCalls ==
    {[tool |-> "get_characters", name |-> <<>>]}
        \cup [tool : {"get_backstory", "get_superpower"}, name : LookupNames]

InitLookup == arg \in LookupCalls /\ ret = None /\ StoreAtRest /\ TableLoaded

ApplyCharacters ==
    /\ arg.tool = "get_characters"
    /\ ret = None
    /\ ret' = Some(get_characters(characters))
    /\ UNCHANGED <<arg, storeVars, characters>>

ApplyBackstory ==
    /\ arg.tool = "get_backstory"
    /\ ret = None
    /\ ret' = Some(get_backstory(arg.name, characters))
    /\ UNCHANGED <<arg, storeVars, characters>>

ApplySuperpower ==
    /\ arg.tool = "get_superpower"
    /\ ret = None
    /\ ret' = Some(get_superpower(arg.name, characters))
    /\ UNCHANGED <<arg, storeVars, characters>>

\* the next lookup arrives
NextLookup(call) ==
    /\ ret # None
    /\ served < MaxCalls
    /\ arg' = call
    /\ ret' = None
    /\ served' = served + 1
    /\ UNCHANGED <<files, calls, today, lastWrite, characters>>

SpecLookup ==
    InitLookup
        /\ [][ApplyCharacters \/ ApplyBackstory \/ ApplySuperpower
                \/ \E call \in LookupCalls : NextLookup(call)]_vars

(***************************************************************************)
(* Properties of the character lookups (checked under SpecLookup).         *)
(***************************************************************************)
\* the names of the table and the position of each
TableNames ==
    << <<"J", "a", "c", "k">>, <<"R", "a", "m">>, <<"R", "o", "b", "e", "r", "t">> >>

\* C13: for a name that is not a key of the table get_backstory and
\* get_superpower return "Character not found."; for a key they return that
\* character's backstory and superpower; get_characters returns Jack, Ram,
\* Robert in this order; and the table is the same in every state.
C13_Lookups ==
    /\ characters = CHARACTERS
    /\ ret # None =>
          IF arg.tool = "get_characters" THEN ret[1] = TableNames
          ELSE IF \E i \in 1..3 : TableNames[i] = arg.name
          THEN \E i \in 1..3 :
                   /\ TableNames[i] = arg.name
                   /\ CHARACTERS[i].key = arg.name
                   /\ ret[1] = IF arg.tool = "get_backstory"
                               THEN CHARACTERS[i].value.backstory
                               ELSE CHARACTERS[i].value.superpower
                   /\ ret[1] # CHARACTERS[i].value[IF arg.tool = "get_backstory"
                                                    THEN "superpower"
                                                    ELSE "backstory"]
          ELSE ret[1] = <<"C", "h", "a", "r", "a", "c", "t", "e", "r", " ", "n",
                          "o", "t", " ", "f", "o", "u", "n", "d", ".">>

\* after two other lookups, the superpower of Ram has been looked up
C13_Witness ==
    /\ served = 2
    /\ arg = [tool |-> "get_superpower", name |-> <<"R", "a", "m">>]
    /\ ret = Some(SuperpowerRam)

(***************************************************************************)
(* parse_user_agent_detailed (lines 516-657)                               *)
(***************************************************************************)
MaxUaPieces == 3    \* a User-Agent is at most this many pieces of UaPieces

Unknown == <<"U", "n", "k", "n", "o", "w", "n">>

\* the dict of lines 518-528
parsed_defaults_AllUnknown ==
    [browser |-> Unknown, browser_version |-> Unknown, os |-> Unknown,
     os_version |-> Unknown, platform |-> Unknown, device_type |-> Unknown,
     is_mobile |-> FALSE, is_bot |-> FALSE, engine |-> Unknown]

parsed_defaults ==
    [browser |-> Unknown, browser_version |-> Unknown, os |-> Unknown,
     os_version |-> Unknown, platform |-> Unknown,
     device_type |-> <<"D", "e", "s", "k", "t", "o", "p">>,
     is_mobile |-> FALSE, is_bot |-> FALSE, engine |-> Unknown]

\* [\d_] and [\d\.]
DigitOrUnderscore == {Digits[i] : i \in 1..Len(Digits)} \cup {"_"}
DigitOrDot == {Digits[i] : i \in 1..Len(Digits)} \cup {"."}

\* lit is in s at position i
FoundAt(s, i, lit) ==
    i + Len(lit) - 1 <= Len(s) /\ SubSeq(s, i, i + Len(lit) - 1) = lit

\* the position after the optional characters x? of a pattern, each taken
\* when it is there
RECURSIVE skip_optional(_, _, _)
skip_optional(s, pos, opts) ==
    IF opts = <<>> THEN pos
    ELSE skip_optional(s, IF pos <= Len(s) /\ s[pos] = Head(opts) THEN pos + 1 ELSE pos,
                       Tail(opts))

\* where the group of the pattern starts when the pattern matches at i
group_starts(s, i, lits, opts, class) ==
    {p \in {skip_optional(s, i + Len(lit), opts) : lit \in {l \in lits : FoundAt(s, i, l)}} :
        p <= Len(s) /\ s[p] \in class}

\* the group [class]+ from position p: the longest run
group_from(s, p, class) ==
    SubSeq(s, p, CHOOSE e \in p..Len(s) :
                     /\ \A k \in p..e : s[k] \in class
                     /\ e = Len(s) \/ s[e + 1] \notin class)

group_at(s, i, lits, opts, class) ==
    group_from(s, CHOOSE p \in group_starts(s, i, lits, opts, class) : TRUE, class)

first_of(hits) == CHOOSE i \in hits : \A j \in hits : i <= j

group_of_first(s, hits, lits, opts, class) ==
    IF hits = {} THEN None ELSE Some(group_at(s, first_of(hits), lits, opts, class))

\* re.search(pattern, s) for a pattern (?:lit|lit)x?y?([class]+): None, or
\* group(1) of the leftmost match
re_search(s, lits, opts, class) ==
    group_of_first(s, {i \in 1..Len(s) : group_starts(s, i, lits, opts, class) # {}},
                   lits, opts, class)

\* the version a match gives, the field as it was without a match
group_or(match, old) == IF match = None THEN old ELSE match[1]

dotted_group_or(match, old) ==
    IF match = None THEN old ELSE str_replace(match[1], "_", ".")

bot_indicators ==
    << <<"b", "o", "t">>,
       <<"c", "r", "a", "w", "l", "e", "r">>,
       <<"s", "p", "i", "d", "e", "r">>,
       <<"s", "c", "r", "a", "p", "e", "r">>,
       <<"c", "u", "r", "l">>,
       <<"w", "g", "e", "t">>,
       <<"p", "y", "t", "h", "o", "n">>,
       <<"p", "o", "s", "t", "m", "a", "n">> >>

\* lines 535-555
bot_detect(parsed, ua_lower) ==
    IF ~ \E i \in 1..Len(bot_indicators) : Contains(ua_lower, bot_indicators[i])
    THEN parsed
    ELSE [parsed EXCEPT
            !.is_bot = TRUE,
            !.device_type = <<"B", "o", "t", "/", "T", "o", "o", "l">>,
            !.browser =
                IF Contains(ua_lower, <<"c", "u", "r", "l">>)
                THEN <<"c", "U", "R", "L">>
                ELSE IF Contains(ua_lower, <<"p", "o", "s", "t", "m", "a", "n">>)
                THEN <<"P", "o", "s", "t", "m", "a", "n">>
                ELSE IF Contains(ua_lower, <<"p", "y", "t", "h", "o", "n">>)
                THEN IF Contains(ua_lower, <<"r", "e", "q", "u", "e", "s", "t", "s">>)
                     THEN <<"P", "y", "t", "h", "o", "n", " ", "R", "e", "q", "u", "e", "s", "t", "s">>
                     ELSE IF Contains(ua_lower, <<"h", "t", "t", "p", "x">>)
                     THEN <<"P", "y", "t", "h", "o", "n", " ", "H", "T", "T", "P", "X">>
                     ELSE <<"P", "y", "t", "h", "o", "n", " ", "H", "T", "T", "P", " ", "C", "l", "i", "e", "n", "t">>
                ELSE IF Contains(ua_lower, <<"g", "o", "o", "g", "l", "e", "b", "o", "t">>)
                THEN <<"G", "o", "o", "g", "l", "e", "b", "o", "t">>
                ELSE IF Contains(ua_lower, <<"b", "i", "n", "g", "b", "o", "t">>)
                THEN <<"B", "i", "n", "g", "b", "o", "t">>
                ELSE @]

\* lines 558-568
windows_detect(parsed, ua_lower) ==
    IF Contains(ua_lower, <<"w", "i", "n", "d", "o", "w", "s", " ", "n", "t", " ", "1", "0", ".", "0">>)
    THEN [parsed EXCEPT !.os = <<"W", "i", "n", "d", "o", "w", "s">>,
                        !.os_version = <<"1", "0", "/", "1", "1">>,
                        !.platform = <<"W", "i", "n", "d", "o", "w", "s", " ", "1", "0", "/", "1", "1">>]
    ELSE IF Contains(ua_lower, <<"w", "i", "n", "d", "o", "w", "s", " ", "n", "t", " ", "6", ".", "3">>)
    THEN [parsed EXCEPT !.os = <<"W", "i", "n", "d", "o", "w", "s">>,
                        !.os_version = <<"8", ".", "1">>,
                        !.platform = <<"W", "i", "n", "d", "o", "w", "s", " ", "8", ".", "1">>]
    ELSE IF Contains(ua_lower, <<"w", "i", "n", "d", "o", "w", "s", " ", "n", "t", " ", "6", ".", "1">>)
    THEN [parsed EXCEPT !.os = <<"W", "i", "n", "d", "o", "w", "s">>,
                        !.os_version = <<"7">>,
                        !.platform = <<"W", "i", "n", "d", "o", "w", "s", " ", "7">>]
    ELSE [parsed EXCEPT !.os = <<"W", "i", "n", "d", "o", "w", "s">>]

\* lines 569-583
macos_detect(parsed, ua_lower) ==
    [parsed EXCEPT
        !.os = <<"m", "a", "c", "O", "S">>,
        !.os_version =
            dotted_group_or(re_search(ua_lower, {<<"m", "a", "c", " ", "o", "s", " ", "x", " ">>},
                                      <<>>, DigitOrUnderscore), @),
        !.platform =
            IF Contains(ua_lower, <<"i", "n", "t", "e", "l">>)
            THEN <<"m", "a", "c", "O", "S", " ", "I", "n", "t", "e", "l">>
            ELSE IF Contains(ua_lower, <<"a", "r", "m", "6", "4">>)
                    \/ Contains(ua_lower, <<"a", "p", "p", "l", "e", " ", "s", "i", "l", "i", "c", "o", "n">>)
            THEN <<"m", "a", "c", "O", "S", " ", "A", "p", "p", "l", "e", " ", "S", "i", "l", "i", "c", "o", "n">>
            ELSE <<"m", "a", "c", "O", "S">>]

\* lines 584-593
linux_detect(parsed, ua_lower) ==
    [parsed EXCEPT
        !.os = <<"L", "i", "n", "u", "x">>,
        !.platform =
            IF Contains(ua_lower, <<"u", "b", "u", "n", "t", "u">>)
            THEN <<"U", "b", "u", "n", "t", "u", " ", "L", "i", "n", "u", "x">>
            ELSE IF Contains(ua_lower, <<"f", "e", "d", "o", "r", "a">>)
            THEN <<"F", "e", "d", "o", "r", "a", " ", "L", "i", "n", "u", "x">>
            ELSE IF Contains(ua_lower, <<"d", "e", "b", "i", "a", "n">>)
            THEN <<"D", "e", "b", "i", "a", "n", " ", "L", "i", "n", "u", "x">>
            ELSE IF Contains(ua_lower, <<"c", "e", "n", "t", "o", "s">>)
            THEN <<"C", "e", "n", "t", "O", "S", " ", "L", "i", "n", "u", "x">>
            ELSE @]

\* lines 594-602
android_detect(parsed, ua_lower) ==
    [parsed EXCEPT
        !.os = <<"A", "n", "d", "r", "o", "i", "d">>,
        !.is_mobile = TRUE,
        !.device_type = <<"M", "o", "b", "i", "l", "e">>,
        !.os_version =
            group_or(re_search(ua_lower, {<<"a", "n", "d", "r", "o", "i", "d", " ">>},
                               <<>>, DigitOrDot), @)]

\* lines 603-612
ios_detect(parsed, ua_lower) ==
    [parsed EXCEPT
        !.os = <<"i", "O", "S">>,
        !.is_mobile = Contains(ua_lower, <<"i", "p", "h", "o", "n", "e">>),
        !.device_type =
            IF Contains(ua_lower, <<"i", "p", "h", "o", "n", "e">>)
            THEN <<"i", "P", "h", "o", "n", "e">> ELSE <<"i", "P", "a", "d">>,
        !.os_version =
            dotted_group_or(re_search(ua_lower, {<<"o", "s", " ">>}, <<>>, DigitOrUnderscore), @)]

\* lines 557-612: the first of the five branches whose keyword is there
os_detect(parsed, ua_lower) ==
    IF Contains(ua_lower, <<"w", "i", "n", "d", "o", "w", "s">>)
    THEN windows_detect(parsed, ua_lower)
    ELSE IF Contains(ua_lower, <<"m", "a", "c", "i", "n", "t", "o", "s", "h">>)
            \/ Contains(ua_lower, <<"m", "a", "c", " ", "o", "s", " ", "x">>)
    THEN macos_detect(parsed, ua_lower)
    ELSE IF Contains(ua_lower, <<"l", "i", "n", "u", "x">>)
    THEN linux_detect(parsed, ua_lower)
    ELSE IF Contains(ua_lower, <<"a", "n", "d", "r", "o", "i", "d">>)
    THEN android_detect(parsed, ua_lower)
    ELSE IF Contains(ua_lower, <<"i", "p", "h", "o", "n", "e">>)
            \/ Contains(ua_lower, <<"i", "p", "a", "d">>)
    THEN ios_detect(parsed, ua_lower)
    ELSE parsed

\* lines 616-655
browser_chain(parsed, ua_lower) ==
    IF Contains(ua_lower, <<"e", "d", "g", "/">>)
       \/ Contains(ua_lower, <<"e", "d", "g", "e", "/">>)
    THEN [parsed EXCEPT
            !.browser = <<"M", "i", "c", "r", "o", "s", "o", "f", "t", " ", "E", "d", "g", "e">>,
            !.engine = <<"B", "l", "i", "n", "k">>,
            !.browser_version =
                group_or(re_search(ua_lower, {<<"e", "d">>}, <<"g", "/">>, DigitOrDot), @)]
    ELSE IF Contains(ua_lower, <<"c", "h", "r", "o", "m", "e", "/">>)
            /\ ~ Contains(ua_lower, <<"e", "d", "g">>)
    THEN [parsed EXCEPT
            !.browser = <<"C", "h", "r", "o", "m", "e">>,
            !.engine = <<"B", "l", "i", "n", "k">>,
            !.browser_version =
                group_or(re_search(ua_lower, {<<"c", "h", "r", "o", "m", "e", "/">>},
                                   <<>>, DigitOrDot), @)]
    ELSE IF Contains(ua_lower, <<"f", "i", "r", "e", "f", "o", "x">>)
    THEN [parsed EXCEPT
            !.browser = <<"F", "i", "r", "e", "f", "o", "x">>,
            !.engine = <<"G", "e", "c", "k", "o">>,
            !.browser_version =
                group_or(re_search(ua_lower, {<<"f", "i", "r", "e", "f", "o", "x", "/">>},
                                   <<>>, DigitOrDot), @)]
    ELSE IF Contains(ua_lower, <<"s", "a", "f", "a", "r", "i">>)
            /\ ~ Contains(ua_lower, <<"c", "h", "r", "o", "m", "e">>)
    THEN [parsed EXCEPT
            !.browser = <<"S", "a", "f", "a", "r", "i">>,
            !.engine = <<"W", "e", "b", "K", "i", "t">>,
            !.browser_version =
                group_or(re_search(ua_lower, {<<"v", "e", "r", "s", "i", "o", "n", "/">>},
                                   <<>>, DigitOrDot), @)]
    ELSE IF Contains(ua_lower, <<"o", "p", "e", "r", "a">>)
            \/ Contains(ua_lower, <<"o", "p", "r", "/">>)
    THEN [parsed EXCEPT
            !.browser = <<"O", "p", "e", "r", "a">>,
            !.engine = <<"B", "l", "i", "n", "k">>,
            !.browser_version =
                group_or(re_search(ua_lower, {<<"o", "p", "e", "r", "a", "/">>,
                                              <<"o", "p", "r", "/">>},
                                   <<>>, DigitOrDot), @)]
    ELSE parsed

\* a plausible slip: the guard of line 615 left out
browser_detect_EvenForBots(parsed, ua_lower) == browser_chain(parsed, ua_lower)

\* lines 614-655
browser_detect(parsed, ua_lower) ==
    IF parsed.is_bot THEN parsed ELSE browser_chain(parsed, ua_lower)

\* lines 533-657, on the lowercased string
parse_lowered(ua_lower) ==
    browser_detect(os_detect(bot_detect(parsed_defaults, ua_lower), ua_lower), ua_lower)

parse_user_agent_detailed(user_agent) ==
    IF user_agent = <<>> THEN parsed_defaults ELSE parse_lowered(str_lower(user_agent))

UaPieces ==
    { <<"c", "u", "r", "l", "/", "8", ".", "1", ".", "2">>,
      <<"i", "P", "h", "o", "n", "e", ";", " ", "C", "P", "U", " ", "i", "P", "h", "o", "n", "e", " ", "O", "S", " ", "1", "6", "_", "4">>,
      <<" ", "l", "i", "k", "e", " ", "M", "a", "c", " ", "O", "S", " ", "X">>,
      <<"A", "n", "d", "r", "o", "i", "d", " ", "1", "3">>,
      <<" ", "C", "h", "r", "o", "m", "e", "/", "1", "1", "4", ".", "0">>,
      <<" ", "S", "a", "f", "a", "r", "i", "/", "5", "3", "7", ".", "3", "6">>,
      <<" ", "E", "d", "g", "/", "1", "1", "4", ".", "0">>,
      <<"W", "i", "n", "d", "o", "w", "s", " ", "N", "T", " ", "1", "0", ".", "0">>,
      <<" ", "O", "P", "R", "/", "9">>,
      <<"M", "o", "z", "i", "l", "l", "a", "/", "5", ".", "0", " ">>,
      <<"U", "b", "u", "n", "t", "u">>,
      <<"V", "e", "r", "s", "i", "o", "n", "/", "1", "6", ".", "4", " ">> }

\* whole User-Agent headers, and the empty one
KnownAgents ==
    { <<"M", "o", "z", "i", "l", "l", "a", "/", "5", ".", "0", " ", "(", "i",
        "P", "h", "o", "n", "e", ";", " ", "C", "P", "U", " ", "i", "P", "h",
        "o", "n", "e", " ", "O", "S", " ", "1", "6", "_", "4", " ", "l", "i",
        "k", "e", " ", "M", "a", "c", " ", "O", "S", " ", "X", ")", " ", "A",
        "p", "p", "l", "e", "W", "e", "b", "K", "i", "t", "/", "6", "0", "5",
        ".", "1", ".", "1", "5", " ", "(", "K", "H", "T", "M", "L", ",", " ",
        "l", "i", "k", "e", " ", "G", "e", "c", "k", "o", ")", " ", "V", "e",
        "r", "s", "i", "o", "n", "/", "1", "6", ".", "4", " ", "M", "o", "b",
        "i", "l", "e", "/", "1", "5", "E", "1", "4", "8", " ", "S", "a", "f",
        "a", "r", "i", "/", "6", "0", "4", ".", "1">>,
      <<"M", "o", "z", "i", "l", "l", "a", "/", "5", ".", "0", " ", "(", "M",
        "a", "c", "i", "n", "t", "o", "s", "h", ";", " ", "I", "n", "t", "e",
        "l", " ", "M", "a", "c", " ", "O", "S", " ", "X", " ", "1", "0", "_",
        "1", "5", "_", "7", ")", " ", "V", "e", "r", "s", "i", "o", "n", "/",
        "1", "6", ".", "4", " ", "S", "a", "f", "a", "r", "i", "/", "6", "0",
        "5", ".", "1", ".", "1", "5">>,
      <<"M", "o", "z", "i", "l", "l", "a", "/", "5", ".", "0", " ", "(", "X",
        "1", "1", ";", " ", "U", "b", "u", "n", "t", "u", ";", " ", "L", "i",
        "n", "u", "x", " ", "x", "8", "6", "_", "6", "4", ";", " ", "r", "v",
        ":", "1", "0", "9", ".", "0", ")", " ", "F", "i", "r", "e", "f", "o",
        "x", "/", "1", "1", "5", ".", "0">>,
      <<"M", "o", "z", "i", "l", "l", "a", "/", "5", ".", "0", " ", "(", "L",
        "i", "n", "u", "x", ";", " ", "A", "n", "d", "r", "o", "i", "d", " ",
        "1", "3", ";", " ", "P", "i", "x", "e", "l", " ", "7", ")", " ", "C",
        "h", "r", "o", "m", "e", "/", "1", "1", "4", ".", "0", " ", "M", "o",
        "b", "i", "l", "e", " ", "S", "a", "f", "a", "r", "i", "/", "5", "3",
        "7", ".", "3", "6">>,
      <<"M", "o", "z", "i", "l", "l", "a", "/", "5", ".", "0", " ", "(", "i",
        "P", "a", "d", ";", " ", "C", "P", "U", " ", "O", "S", " ", "1", "6",
        "_", "4", " ", "l", "i", "k", "e", " ", "M", "a", "c", " ", "O", "S",
        " ", "X", ")">>,
      <<"p", "y", "t", "h", "o", "n", "-", "r", "e", "q", "u", "e", "s", "t",
        "s", "/", "2", ".", "3", "1", ".", "0">>,
      <<"p", "y", "t", "h", "o", "n", "-", "h", "t", "t", "p", "x", "/", "0",
        ".", "2", "4">>,
      <<"P", "y", "t", "h", "o", "n", "-", "u", "r", "l", "l", "i", "b", "/",
        "3", ".", "1", "1">>,
      <<"G", "o", "o", "g", "l", "e", "b", "o", "t", "/", "2", ".", "1">>,
      <<"b", "i", "n", "g", "b", "o", "t", "/", "2", ".", "0">>,
      <<"P", "o", "s", "t", "m", "a", "n", "R", "u", "n", "t", "i", "m", "e",
        "/", "7", ".", "3", "2">>,
      <<"O", "p", "e", "r", "a", "/", "9", ".", "8", "0", " ", "(", "W", "i",
        "n", "d", "o", "w", "s", " ", "N", "T", " ", "6", ".", "1", ")">>,
      <<"W", "i", "n", "d", "o", "w", "s", " ", "N", "T", " ", "6", ".", "3">>,
      <<"W", "g", "e", "t", "/", "1", ".", "2", "1", " ", "(", "l", "i", "n",
        "u", "x", "-", "g", "n", "u", ")">>,
      <<"M", "a", "c", "i", "n", "t", "o", "s", "h", ";", " ", "a", "r", "m",
        "6", "4">>,
      <<"F", "e", "d", "o", "r", "a", " ", "L", "i", "n", "u", "x">>,
      <<"d", "e", "b", "i", "a", "n", " ", "l", "i", "n", "u", "x">>,
      <<"C", "e", "n", "t", "O", "S", " ", "L", "i", "n", "u", "x">>,
      <<"E", "d", "g", "e", "/", "1", "8", ".", "0">>,
      <<"U+0130", "P", "H", "O", "N", "E">>,
      <<"i", "P", "a", "d">>,
      <<"C", "h", "r", "o", "m", "e">>,
      <<>> }

UserAgents ==
    {Concat(p) : p \in UNION {[1..n -> UaPieces] : n \in 0..MaxUaPieces}}
        \cup KnownAgents

InitUA == arg \in UserAgents /\ ret = <<>> /\ StoreAtRest /\ TableLoaded

\* one more call with the same header; ret keeps what each call returned
ApplyParse ==
    /\ Len(ret) < MaxCalls
    /\ ret' = Append(ret, parse_user_agent_detailed(arg))
    /\ UNCHANGED <<arg, storeVars, characters>>

SpecUA == InitUA /\ [][ApplyParse]_vars

(***************************************************************************)
(* Properties of parse_user_agent_detailed (checked under SpecUA).  ret    *)
(* holds what the calls made so far with the header arg returned.          *)
(***************************************************************************)
\* C14: a header that contains "curl" is classified as is_bot, browser
\* "cURL" and device_type "Bot/Tool" whatever else it contains, and every
\* result with is_bot has device_type "Bot/Tool".
C14_BotDeviceType ==
    \A i \in 1..Len(ret) :
        /\ Contains(arg, <<"c", "u", "r", "l">>) =>
              /\ ret[i].is_bot
              /\ ret[i].browser = <<"c", "U", "R", "L">>
              /\ ret[i].device_type = <<"B", "o", "t", "/", "T", "o", "o", "l">>
        /\ ret[i].is_bot => ret[i].device_type = <<"B", "o", "t", "/", "T", "o", "o", "l">>

\* C15: a header that contains "iPhone; CPU iPhone OS 16_4" is classified as
\* os "iOS", device_type "iPhone", is_mobile and os_version "16.4" whatever
\* else it contains.
C15_IphoneFields ==
    \A i \in 1..Len(ret) :
        Contains(arg, <<"i", "P", "h", "o", "n", "e", ";", " ", "C", "P", "U", " ", "i", "P", "h", "o", "n", "e", " ", "O", "S", " ", "1", "6", "_", "4">>) =>
            /\ ret[i].os = <<"i", "O", "S">>
            /\ ret[i].device_type = <<"i", "P", "h", "o", "n", "e">>
            /\ ret[i].is_mobile
            /\ ret[i].os_version = <<"1", "6", ".", "4">>

OsFields(parsed) == <<parsed.os, parsed.os_version, parsed.platform>>

\* the header with a bot keyword after it, and with one before it
WithBotKeyword(k) ==
    { arg \o <<" ">> \o bot_indicators[k], bot_indicators[k] \o <<" ">> \o arg }

EdgeMatches ==
    Contains(str_lower(arg), <<"e", "d", "g", "/">>) \/ Contains(str_lower(arg), <<"e", "d", "g", "e", "/">>)

ChromeMatches ==
    Contains(str_lower(arg), <<"c", "h", "r", "o", "m", "e", "/">>) /\ ~ Contains(str_lower(arg), <<"e", "d", "g">>)

FirefoxMatches == Contains(str_lower(arg), <<"f", "i", "r", "e", "f", "o", "x">>)

SafariMatches ==
    Contains(str_lower(arg), <<"s", "a", "f", "a", "r", "i">>) /\ ~ Contains(str_lower(arg), <<"c", "h", "r", "o", "m", "e">>)

OperaMatches ==
    Contains(str_lower(arg), <<"o", "p", "e", "r", "a">>) \/ Contains(str_lower(arg), <<"o", "p", "r", "/">>)

FirstBrowserMatch ==
    IF EdgeMatches THEN <<<<"M", "i", "c", "r", "o", "s", "o", "f", "t", " ", "E", "d", "g", "e">>, <<"B", "l", "i", "n", "k">>>>
    ELSE IF ChromeMatches THEN <<<<"C", "h", "r", "o", "m", "e">>, <<"B", "l", "i", "n", "k">>>>
    ELSE IF FirefoxMatches THEN <<<<"F", "i", "r", "e", "f", "o", "x">>, <<"G", "e", "c", "k", "o">>>>
    ELSE IF SafariMatches THEN <<<<"S", "a", "f", "a", "r", "i">>, <<"W", "e", "b", "K", "i", "t">>>>
    ELSE IF OperaMatches THEN <<<<"O", "p", "e", "r", "a">>, <<"B", "l", "i", "n", "k">>>>
    ELSE <<<<"U", "n", "k", "n", "o", "w", "n">>, <<"U", "n", "k", "n", "o", "w", "n">>>>

\* C17: a result with is_bot has engine and browser_version "Unknown"; os,
\* os_version and platform are the same with a bot keyword added to the
\* header; for a header that is not a bot's the browser and engine are
\* those of the first match in the order Edge, Chrome, Firefox, Safari,
\* Opera, so "chrome/" without "edg" gives Chrome and Blink even with
\* "safari" or "opr/" in the header.
C17_BotSuppressesBrowserOnly ==
    \A i \in 1..Len(ret) :
        /\ ret[i].is_bot =>
              /\ ret[i].engine = <<"U", "n", "k", "n", "o", "w", "n">>
              /\ ret[i].browser_version = <<"U", "n", "k", "n", "o", "w", "n">>
        /\ \A k \in 1..Len(bot_indicators) : \A ua \in WithBotKeyword(k) :
              /\ parse_user_agent_detailed(ua).is_bot
              /\ OsFields(parse_user_agent_detailed(ua)) = OsFields(ret[i])
        /\ ~ ret[i].is_bot =>
              /\ <<ret[i].browser, ret[i].engine>> = FirstBrowserMatch
              /\ Contains(str_lower(arg), <<"c", "h", "r", "o", "m", "e", "/">>)
                    /\ ~ Contains(str_lower(arg), <<"e", "d", "g">>)
                 => /\ ret[i].browser = <<"C", "h", "r", "o", "m", "e">>
                    /\ ret[i].engine = <<"B", "l", "i", "n", "k">>

\* the header "curl/8.1.2Windows NT 10.0 Chrome/114.0" has been parsed: a
\* bot's, with a browser keyword and an OS keyword
C17_Witness ==
    /\ arg = <<"c", "u", "r", "l", "/", "8", ".", "1", ".", "2", "W", "i", "n", "d", "o", "w", "s", " ", "N", "T", " ", "1", "0", ".", "0", " ", "C", "h", "r", "o", "m", "e", "/", "1", "1", "4", ".", "0">>
    /\ Len(ret) = 1
    /\ ret[1].is_bot
    /\ ret[1].os = <<"W", "i", "n", "d", "o", "w", "s">>
    /\ ret[1].engine = <<"U", "n", "k", "n", "o", "w", "n">>

\* the keywords of the three categories
CategoryKeywords ==
    {bot_indicators[k] : k \in 1..Len(bot_indicators)}
        \cup { <<"w", "i", "n", "d", "o", "w", "s">>,
             <<"m", "a", "c", "i", "n", "t", "o", "s", "h">>,
             <<"m", "a", "c", " ", "o", "s", " ", "x">>,
             <<"l", "i", "n", "u", "x">>,
             <<"a", "n", "d", "r", "o", "i", "d">>,
             <<"i", "p", "h", "o", "n", "e">>,
             <<"i", "p", "a", "d">> }
        \cup { <<"e", "d", "g", "/">>,
             <<"e", "d", "g", "e", "/">>,
             <<"c", "h", "r", "o", "m", "e", "/">>,
             <<"f", "i", "r", "e", "f", "o", "x">>,
             <<"s", "a", "f", "a", "r", "i">>,
             <<"o", "p", "e", "r", "a">>,
             <<"o", "p", "r", "/">> }

ParsedFields ==
    {"browser", "browser_version", "os", "os_version", "platform", "device_type",
     "is_mobile", "is_bot", "engine"}

BodyRan(c) == calls[c].op # "none" /\ calls[c].pc \in {"replying", "done"}

\* C16: no call of save_story, get_story or list_stories ends with an
\* exception: a save whose open or write failed returns "Error saving
\* story: ...", a save without an HTTP request returns the refusal of a
\* missing token, a get whose read failed returns "Error reading story
\* file: ...", a list whose listdir failed returns the empty list.
C16_FailuresAreReturned ==
    \A c \in DOMAIN calls :
        BodyRan(c) =>
            /\ calls[c].raised = "none"
            /\ calls[c].op = "save" /\ calls[c].io \in {"open_error", "write_error"} =>
                  /\ StartsWith(calls[c].result, MsgErrorSaving)
                  /\ Len(calls[c].result) > Len(MsgErrorSaving)
                  /\ ~ calls[c].wrote
            /\ calls[c].op = "save" /\ ~ calls[c].http =>
                  calls[c].result = MsgErrorPrefix \o MsgTokenRequired \o MsgNotSaved
            /\ calls[c].op = "get" /\ calls[c].io = "read_error" =>
                  IF files[calls[c].filename] = None
                  THEN calls[c].result = MsgNotFound
                  ELSE /\ StartsWith(calls[c].result, MsgErrorReading)
                       /\ Len(calls[c].result) > Len(MsgErrorReading)
            /\ calls[c].op = "list" /\ calls[c].io = "listdir_error" =>
                  calls[c].result = <<>>

\* a save whose fifth write failed has returned, after a get_story whose
\* read failed
C16_Witness ==
    \E c \in DOMAIN calls :
        /\ served = 2
        /\ calls[c].op = "save"
        /\ calls[c].pc = "done"
        /\ calls[c].io = "write_error"
        /\ files[calls[c].filename] # None
        /\ StartsWith(calls[c].result, MsgErrorSaving)

\* C19: after a save that reports success the written file is an entry of
\* the working directory, its name is among the names list_stories returns,
\* and no path outside the working directory holds a file.
C19_WritesStayInWorkingDirectory ==
    /\ \A p \in Paths : ~ in_working_directory(p) => files[p] = None
    /\ \A c \in DOMAIN calls :
          SaveRan(c) /\ calls[c].wrote =>
              /\ in_working_directory(calls[c].filename)
              /\ \A order \in DirOrders :
                    \E i \in 1..Len(md_entries(listdir(files, order))) :
                        md_entries(listdir(files, order))[i] = calls[c].filename

====
